---- MODULE Spec2Model ----
(***************************************************************************)
(* Adaptive practice-task selector and mastery tracker of english_app.     *)
(*                                                                         *)
(* The repository holds two generations of the application:                *)
(*   - the application shell of src/App.tsx (placement test, level-up      *)
(*     test, rolling history of boolean results), with the later variant   *)
(*     of its handlers in the second half of src/index.tsx;                *)
(*   - the vocabulary dashboard of src/components/LearningDashboard.tsx    *)
(*     and the rule-based selector of src/unnamed/part_000 (copied in the  *)
(*     first half of src/index.tsx).                                       *)
(* Each part is modelled by its own variables and its own specification.   *)
(***************************************************************************)
EXTENDS Integers, Sequences, FiniteSets, TLC

VARIABLES
    \* ---- src/App.tsx: state of the App component -----------------------
    isInitializing,      \* useState(true), cleared by the mount effect
    appState,            \* AppState
    userData,            \* UserData | null
    geminiService,       \* TRUE when a GeminiService object is held
    assessmentQuestions, \* number of placement questions held
    levelUpQuestions,    \* number of level-up questions held
    levelUpResult,       \* {isSuccess, newLevel}
    localStorage,        \* the item stored under STORAGE_KEY, or null
    pendingAssessment,   \* generateAssessmentTest() calls in flight
    pendingLevelUp,      \* generateLevelUpTest() calls in flight
    pendingImages,       \* the userData prop each generateImage() call in
                         \* flight was started with (src/unnamed/part_005)
    \* ---- src/index.tsx (second half): the later App component ----------
    idxUserData,         \* its UserData (vocabularyProgress, recentMistakes)
    \* ---- src/components/LearningDashboard.tsx: the vocabulary dashboard -
    dashUserData,        \* the userData prop (level, vocabulary, ...)
    task,                \* useState<LearningTask | null>
    feedback,            \* useState<{isCorrect, explanation} | null>
    isLoading,           \* a generateLearningTask call is in flight
    error,               \* TRUE when the error card is shown
    \* ---- history variables ---------------------------------------------
    resultLog,           \* every result handed to handleTaskComplete so far
    typeLog,             \* the types of the tasks completed by handleNext
    introLog,            \* the words handleNext added to the vocabulary
    forcedInstructions,  \* forcedInstruction of the generateLearningTask
                         \* calls made for the present user data
    mistakeLog,          \* every mistake handleTaskComplete recorded, the
                         \* latest task first
    feedbackLog,         \* every text handed to handleFeedbackSubmit
    sinceLevelUp         \* whether a level-up test has been completed, and
                         \* the results handed to handleTaskComplete since
                         \* the last one was

appVars == <<isInitializing, appState, userData, geminiService,
             assessmentQuestions, levelUpQuestions, levelUpResult,
             localStorage, pendingAssessment, pendingLevelUp,
             pendingImages>>

idxVars == <<idxUserData>>

dashVars == <<dashUserData, task, feedback, isLoading, error>>

logVars == <<resultLog, typeLog, introLog, forcedInstructions, mistakeLog,
            feedbackLog,
            sinceLevelUp>>

vars == <<appVars, idxVars, dashVars, logVars>>

-----------------------------------------------------------------------------
(* Values *)

\* JavaScript null for an object-valued state (records with another domain
\* compare unequal to it).
NULL == [null |-> TRUE]

\* JavaScript null / undefined for a string-valued field.
NoLevel == "null"
Undefined == "undefined"

CEFR_LEVELS_ORDER ==
    << "A1 (Beginner)", "A2 (Elementary)", "B1 (Intermediate)",
       "B2 (Upper-Intermediate)", "C1 (Advanced)" >>

CEFRLevels == { CEFR_LEVELS_ORDER[i] : i \in 1..Len(CEFR_LEVELS_ORDER) }

PROGRESS_HISTORY_LENGTH == 100
PROGRESS_UNLOCK_THRESHOLD == 80
LEVEL_UP_TEST_QUESTIONS == 50
\* LEVEL_UP_PASS_PERCENTAGE = 0.8, kept as a percentage so that the
\* comparison score >= 0.8 is exact integer arithmetic.
LEVEL_UP_PASS_PERCENT == 80
\* generateAssessmentTest rejects an answer with fewer than 30 questions.
ASSESSMENT_TEST_QUESTIONS == 30
\* handleFeedbackSubmit keeps the last 20 feedback texts.
FEEDBACK_HISTORY_LENGTH == 20

-----------------------------------------------------------------------------
(* Bounds *)

\* requests of one kind that may be in flight at the same time
MaxPending == 2
\* results recorded in one day in the application-shell specification
MaxAppCompleted == 2
\* feedback texts kept in the application-shell specification
MaxAppFeedback == 1
\* images generated in one day in the application-shell specification
MaxImages == 1
\* generateImage() calls that may be in flight at the same time
MaxPendingImages == 1

-----------------------------------------------------------------------------
(* JavaScript array helpers (0-based indices, as in the source) *)

\* Array.prototype.indexOf: index of the first occurrence, or -1
IndexOf(arr, x) ==
    IF \E i \in 1..Len(arr) : arr[i] = x
    THEN (CHOOSE i \in 1..Len(arr) :
            arr[i] = x /\ \A j \in 1..(i - 1) : arr[j] # x) - 1
    ELSE -1

\* arr[i]: undefined outside the array
At(arr, i) == IF i >= 0 /\ i < Len(arr) THEN arr[i + 1] ELSE Undefined

\* arr.slice(-n) for n > 0: the last n elements
SliceLast(arr, n) ==
    IF Len(arr) <= n THEN arr ELSE SubSeq(arr, Len(arr) - n + 1, Len(arr))

\* arr.slice(0, n): the first n elements
SliceFirst(arr, n) ==
    IF Len(arr) <= n THEN arr ELSE SubSeq(arr, 1, n)

\* arr.filter(Boolean).length
RECURSIVE CountTrue(_)
CountTrue(arr) ==
    IF arr = <<>> THEN 0
    ELSE (IF Head(arr) THEN 1 ELSE 0) + CountTrue(Tail(arr))

\* n copies of v
Repeat(v, n) == [i \in 1..n |-> v]

LevelIndex(level) == IndexOf(CEFR_LEVELS_ORDER, level)

-----------------------------------------------------------------------------
(* src/App.tsx: the application shell *)

\* the UserData object handleLogin builds for a new user
NewUserData ==
    [ level           |-> NoLevel,
      imageGeneration |-> [count |-> 0],
      taskHistory     |-> <<>>,
      dailyStats      |-> [completed |-> 0, correct |-> 0],
      feedbackHistory |-> <<>> ]

\* the value of levelUpResult when no test has succeeded
NoLevelUpResult == [isSuccess |-> FALSE, newLevel |-> NoLevel]

\* result histories that an earlier session may have left in the store:
\* empty, one short of the unlock threshold, at the threshold
StoredHistories ==
    { <<>>,
      Repeat(TRUE, PROGRESS_UNLOCK_THRESHOLD - 1),
      Repeat(TRUE, PROGRESS_UNLOCK_THRESHOLD) }

\* what the store may hold when the page is opened
\* (results are recorded only once a level is set)
StoredUserData ==
    { NULL, NewUserData } \cup
    { [NewUserData EXCEPT !.level = l, !.taskHistory = h] :
          l \in CEFRLevels, h \in StoredHistories }

\* the batches of results one task can report
ResultBatches == { <<TRUE>>, <<FALSE>>, <<TRUE, FALSE>> }

\* handleUserDataChange: set the state and write it to the store
handleUserDataChange(newUserData) ==
    /\ userData' = newUserData
    /\ localStorage' = newUserData

\* the data handleLogin reads back from the store; the daily counters are
\* reset when the stored date is not today
LoadedUserData(saved, sameDay) ==
    IF sameDay THEN saved
    ELSE [saved EXCEPT !.dailyStats = [completed |-> 0, correct |-> 0],
                       !.imageGeneration = [count |-> 0]]

\* the mount effect: log in from the store when it holds saved data
MountEffect ==
    /\ isInitializing
    /\ isInitializing' = FALSE
    /\ IF localStorage # NULL
       THEN \E sameDay \in BOOLEAN :
              LET data == LoadedUserData(localStorage, sameDay) IN
              /\ geminiService' = TRUE
              /\ handleUserDataChange(data)
              /\ appState' = IF data.level # NoLevel THEN "LEARNING"
                             ELSE "WELCOME"
       ELSE UNCHANGED <<geminiService, userData, localStorage, appState>>
    /\ UNCHANGED <<assessmentQuestions, levelUpQuestions, levelUpResult,
                   pendingAssessment, pendingLevelUp,
                   pendingImages>>

\* handleLogin(name, apiKey, false), from the AuthScreen
handleLogin ==
    /\ ~isInitializing
    /\ appState = "AUTH"
    /\ geminiService' = TRUE
    /\ handleUserDataChange(NewUserData)
    /\ appState' = "WELCOME"
    /\ UNCHANGED <<isInitializing, assessmentQuestions, levelUpQuestions,
                   levelUpResult, pendingAssessment, pendingLevelUp,
                   pendingImages>>

\* the screens other than AuthScreen are rendered only with user data
Rendered(screen) ==
    /\ ~isInitializing
    /\ appState = screen
    /\ userData # NULL

\* handleStartAssessment up to its await
handleStartAssessment ==
    /\ Rendered("WELCOME")
    /\ geminiService
    /\ pendingAssessment < MaxPending
    /\ appState' = "ASSESSMENT_LOADING"
    /\ pendingAssessment' = pendingAssessment + 1
    /\ UNCHANGED <<isInitializing, userData, geminiService,
                   assessmentQuestions, levelUpQuestions, levelUpResult,
                   localStorage, pendingLevelUp,
                   pendingImages>>

\* handleStartAssessment after its await: the questions arrived
AssessmentTestResolved ==
    /\ pendingAssessment > 0
    /\ pendingAssessment' = pendingAssessment - 1
    /\ assessmentQuestions' = ASSESSMENT_TEST_QUESTIONS
    /\ appState' = "ASSESSING"
    /\ UNCHANGED <<isInitializing, userData, geminiService, levelUpQuestions,
                   levelUpResult, localStorage, pendingLevelUp,
                   pendingImages>>

\* handleStartAssessment after its await: the request failed
AssessmentTestRejected ==
    /\ pendingAssessment > 0
    /\ pendingAssessment' = pendingAssessment - 1
    /\ appState' = "WELCOME"
    /\ UNCHANGED <<isInitializing, userData, geminiService,
                   assessmentQuestions, levelUpQuestions, levelUpResult,
                   localStorage, pendingLevelUp,
                   pendingImages>>

\* handleAssessmentComplete(level), called by the Assessment screen
handleAssessmentComplete(level) ==
    /\ Rendered("ASSESSING")
    /\ assessmentQuestions > 0
    /\ handleUserDataChange([userData EXCEPT !.level = level])
    /\ appState' = "RESULTS"
    /\ UNCHANGED <<isInitializing, geminiService, assessmentQuestions,
                   levelUpQuestions, levelUpResult, pendingAssessment,
                   pendingLevelUp,
                   pendingImages>>

\* handleStartLearning, from the ResultsScreen
handleStartLearning ==
    /\ Rendered("RESULTS")
    /\ userData.level # NoLevel
    /\ appState' = "LEARNING"
    /\ UNCHANGED <<isInitializing, userData, geminiService,
                   assessmentQuestions, levelUpQuestions, levelUpResult,
                   localStorage, pendingAssessment, pendingLevelUp,
                   pendingImages>>

\* handleReset, from the Header
handleReset ==
    /\ ~isInitializing
    /\ appState # "AUTH"
    /\ userData # NULL
    /\ localStorage' = NULL
    /\ userData' = NULL
    /\ geminiService' = FALSE
    /\ assessmentQuestions' = 0
    /\ levelUpQuestions' = 0
    /\ appState' = "AUTH"
    /\ UNCHANGED <<isInitializing, levelUpResult, pendingAssessment,
                   pendingLevelUp,
                   pendingImages>>

\* the LearningDashboard is rendered
DashboardRendered ==
    /\ Rendered("LEARNING")
    /\ userData.level # NoLevel
    /\ geminiService

\* newHistory of handleTaskComplete: append, then drop from the front
\* whatever exceeds PROGRESS_HISTORY_LENGTH
AppendResultsDropNewest(history, results) ==
    LET newHistory == history \o results IN
    IF Len(newHistory) > PROGRESS_HISTORY_LENGTH
    THEN SubSeq(newHistory, 1, PROGRESS_HISTORY_LENGTH)
    ELSE newHistory
AppendResults(history, results) ==
    LET newHistory == history \o results IN
    IF Len(newHistory) > PROGRESS_HISTORY_LENGTH
    THEN SubSeq(newHistory, Len(newHistory) - PROGRESS_HISTORY_LENGTH + 1,
                Len(newHistory))
    ELSE newHistory

\* the user data handleTaskComplete(results) writes
TaskCompleteData(data, results) ==
    [data EXCEPT
       !.taskHistory = AppendResults(data.taskHistory, results),
       !.dailyStats = [completed |-> data.dailyStats.completed + Len(results),
                       correct |-> data.dailyStats.correct
                                       + CountTrue(results)]]

\* handleTaskComplete(results), called by the LearningDashboard
handleTaskComplete(results) ==
    /\ DashboardRendered
    /\ handleUserDataChange(TaskCompleteData(userData, results))
    /\ UNCHANGED <<isInitializing, appState, geminiService,
                   assessmentQuestions, levelUpQuestions, levelUpResult,
                   pendingAssessment, pendingLevelUp,
                   pendingImages>>

\* limitReached of the LearningDashboard rendered with data
imageLimit == 10
limitReached(data) == data.imageGeneration.count >= imageLimit

\* handleCheckAnswers on an image task whose one question is answered
\* correctly: onTaskComplete([true]), then handleGenerateImage up to its
\* await, which keeps the userData prop of the render it was called from
handleCheckAnswers ==
    /\ DashboardRendered
    /\ handleUserDataChange(TaskCompleteData(userData, <<TRUE>>))
    /\ pendingImages' = IF limitReached(userData) THEN pendingImages
                        ELSE Append(pendingImages, userData)
    /\ UNCHANGED <<isInitializing, appState, geminiService,
                   assessmentQuestions, levelUpQuestions, levelUpResult,
                   pendingAssessment, pendingLevelUp>>

\* newUserData of handleGenerateImage: a copy of the userData prop it
\* kept, with one image more
GeneratedImageData(data) ==
    [data EXCEPT !.imageGeneration.count = data.imageGeneration.count + 1]

\* handleGenerateImage after its await: the image arrived
ImageResolved ==
    /\ pendingImages # <<>>
    /\ handleUserDataChange(GeneratedImageData(Head(pendingImages)))
    /\ pendingImages' = Tail(pendingImages)
    /\ UNCHANGED <<isInitializing, appState, geminiService,
                   assessmentQuestions, levelUpQuestions, levelUpResult,
                   pendingAssessment, pendingLevelUp>>

\* handleGenerateImage after its await: the request failed
ImageRejected ==
    /\ pendingImages # <<>>
    /\ pendingImages' = Tail(pendingImages)
    /\ UNCHANGED <<isInitializing, appState, userData, geminiService,
                   assessmentQuestions, levelUpQuestions, levelUpResult,
                   localStorage, pendingAssessment, pendingLevelUp>>

\* newFeedbackHistory of handleFeedbackSubmit: push, then shift when the
\* length exceeds 20
NewFeedbackHistoryDropNewest(feedbackHistory, text) ==
    LET newFeedbackHistory == Append(feedbackHistory, text) IN
    IF Len(newFeedbackHistory) > FEEDBACK_HISTORY_LENGTH
    THEN SubSeq(newFeedbackHistory, 1, Len(newFeedbackHistory) - 1)
    ELSE newFeedbackHistory
NewFeedbackHistory(feedbackHistory, text) ==
    LET newFeedbackHistory == Append(feedbackHistory, text) IN
    IF Len(newFeedbackHistory) > FEEDBACK_HISTORY_LENGTH
    THEN Tail(newFeedbackHistory)
    ELSE newFeedbackHistory

\* handleFeedbackSubmit(text), called by the feedback form of the
\* LearningDashboard
handleFeedbackSubmit(text) ==
    /\ DashboardRendered
    /\ handleUserDataChange(
           [userData EXCEPT !.feedbackHistory =
                NewFeedbackHistory(userData.feedbackHistory, text)])
    /\ UNCHANGED <<isInitializing, appState, geminiService,
                   assessmentQuestions, levelUpQuestions, levelUpResult,
                   pendingAssessment, pendingLevelUp,
                   pendingImages>>

\* canAttemptLevelUp of the LearningDashboard
canAttemptLevelUpAbove(data) ==
    CountTrue(data.taskHistory) > PROGRESS_UNLOCK_THRESHOLD
canAttemptLevelUp(data) ==
    CountTrue(data.taskHistory) >= PROGRESS_UNLOCK_THRESHOLD

\* handleStartLevelUpTest up to its await; at the last level it only alerts
handleStartLevelUpTest ==
    /\ DashboardRendered
    /\ canAttemptLevelUp(userData)
    /\ LevelIndex(userData.level) < Len(CEFR_LEVELS_ORDER) - 1
    /\ pendingLevelUp < MaxPending
    /\ appState' = "LEVEL_UP_ASSESSMENT_LOADING"
    /\ pendingLevelUp' = pendingLevelUp + 1
    /\ UNCHANGED <<isInitializing, userData, geminiService,
                   assessmentQuestions, levelUpQuestions, levelUpResult,
                   localStorage, pendingAssessment, pendingImages>>

\* handleStartLevelUpTest after its await: the questions arrived
LevelUpTestResolved ==
    /\ pendingLevelUp > 0
    /\ pendingLevelUp' = pendingLevelUp - 1
    /\ levelUpQuestions' = LEVEL_UP_TEST_QUESTIONS
    /\ appState' = "LEVEL_UP_ASSESSING"
    /\ UNCHANGED <<isInitializing, userData, geminiService,
                   assessmentQuestions, levelUpResult, localStorage,
                   pendingAssessment, pendingImages>>

\* handleStartLevelUpTest after its await: the request failed
LevelUpTestRejected ==
    /\ pendingLevelUp > 0
    /\ pendingLevelUp' = pendingLevelUp - 1
    /\ appState' = "LEARNING"
    /\ UNCHANGED <<isInitializing, userData, geminiService,
                   assessmentQuestions, levelUpQuestions, levelUpResult,
                   localStorage, pendingAssessment, pendingImages>>

\* isSuccess of handleLevelUpTestComplete for the score correct / total
IsSuccessAbove(correct, total) ==
    correct * 100 > LEVEL_UP_PASS_PERCENT * total
IsSuccess(correct, total) ==
    correct * 100 >= LEVEL_UP_PASS_PERCENT * total

\* nextLevel of handleLevelUpTestComplete (undefined after the last level)
NextLevelSkipping(level) == At(CEFR_LEVELS_ORDER, LevelIndex(level) + 2)
NextLevel(level) == At(CEFR_LEVELS_ORDER, LevelIndex(level) + 1)

\* newLevel of handleLevelUpTestComplete
NewLevel(level, isSuccess) ==
    IF isSuccess /\ NextLevel(level) # Undefined
    THEN NextLevel(level) ELSE level

\* the user data handleLevelUpTestComplete writes: the progress is reset
\* whatever the outcome
LevelUpTestCompleteDataKeepingFailed(data, newLevel) ==
    [data EXCEPT !.level = newLevel,
                 !.taskHistory = IF newLevel = data.level
                                 THEN data.taskHistory ELSE <<>>]
LevelUpTestCompleteData(data, newLevel) ==
    [data EXCEPT !.level = newLevel, !.taskHistory = <<>>]

\* handleLevelUpTestComplete(score), called by the LevelUpAssessment screen
\* with score = correctAnswersCount / questions.length
handleLevelUpTestComplete(correct) ==
    /\ Rendered("LEVEL_UP_ASSESSING")
    /\ levelUpQuestions > 0
    /\ userData.level # NoLevel
    /\ LET isSuccess == IsSuccess(correct, levelUpQuestions)
           newLevel == NewLevel(userData.level, isSuccess)
       IN /\ levelUpResult' =
                IF isSuccess /\ NextLevel(userData.level) # Undefined
                THEN [isSuccess |-> TRUE, newLevel |-> newLevel]
                ELSE NoLevelUpResult
          /\ handleUserDataChange(LevelUpTestCompleteData(userData, newLevel))
    /\ appState' = "LEVEL_UP_RESULTS"
    /\ UNCHANGED <<isInitializing, geminiService, assessmentQuestions,
                   levelUpQuestions, pendingAssessment, pendingLevelUp,
                   pendingImages>>

\* handleContinueFromLevelUp, from the LevelUpResultsScreen
handleContinueFromLevelUp ==
    /\ Rendered("LEVEL_UP_RESULTS")
    /\ appState' = "LEARNING"
    /\ levelUpQuestions' = 0
    /\ levelUpResult' = NoLevelUpResult
    /\ UNCHANGED <<isInitializing, userData, geminiService,
                   assessmentQuestions, localStorage, pendingAssessment,
                   pendingLevelUp,
                   pendingImages>>

\* the App component of src/App.tsx is not mounted
AppUnused ==
    /\ isInitializing = TRUE
    /\ appState = "AUTH"
    /\ userData = NULL
    /\ geminiService = FALSE
    /\ assessmentQuestions = 0
    /\ levelUpQuestions = 0
    /\ levelUpResult = [isSuccess |-> FALSE, newLevel |-> NoLevel]
    /\ localStorage = NULL
    /\ pendingAssessment = 0
    /\ pendingLevelUp = 0
    /\ pendingImages = <<>>

\* the vocabulary dashboard is not mounted
DashUnused ==
    /\ dashUserData = NULL
    /\ task = NULL
    /\ feedback = NULL
    /\ isLoading = FALSE
    /\ error = FALSE

\* the value of sinceLevelUp while no level-up test has been completed
NoTest == [completed |-> FALSE, results |-> <<>>]

\* nothing has been recorded
LogsEmpty ==
    /\ resultLog = <<>>
    /\ typeLog = <<>>
    /\ introLog = <<>>
    /\ forcedInstructions = <<>>
    /\ mistakeLog = <<>>
    /\ feedbackLog = <<>>
    /\ sinceLevelUp = NoTest

AppInit ==
    /\ isInitializing = TRUE
    /\ appState = "AUTH"
    /\ userData = NULL
    /\ geminiService = FALSE
    /\ assessmentQuestions = 0
    /\ levelUpQuestions = 0
    /\ levelUpResult = NoLevelUpResult
    /\ localStorage \in StoredUserData
    /\ pendingAssessment = 0
    /\ pendingLevelUp = 0
    /\ pendingImages = <<>>

AppTaskComplete ==
    \E results \in ResultBatches :
        /\ userData # NULL
        /\ userData.dailyStats.completed + Len(results) <= MaxAppCompleted
        /\ handleTaskComplete(results)

\* the texts the feedback form submits
FeedbackTexts == {"too easy", "too hard"}

AppFeedbackSubmit ==
    \E text \in FeedbackTexts :
        /\ userData # NULL
        /\ Len(userData.feedbackHistory) < MaxAppFeedback
        /\ handleFeedbackSubmit(text)

\* an image task is answered correctly
AppImageTaskComplete ==
    /\ userData # NULL
    /\ userData.dailyStats.completed < MaxAppCompleted
    /\ userData.imageGeneration.count < MaxImages
    /\ Len(pendingImages) < MaxPendingImages
    /\ handleCheckAnswers

AppAssessmentComplete == \E level \in CEFRLevels : handleAssessmentComplete(level)

AppLevelUpTestComplete ==
    \E correct \in 0..LEVEL_UP_TEST_QUESTIONS :
        /\ correct <= levelUpQuestions
        /\ handleLevelUpTestComplete(correct)

\* a step of the App component leaves the other components alone
AppOnly == UNCHANGED <<idxVars, dashVars, logVars>>

AppNext ==
    \/ MountEffect /\ AppOnly
    \/ handleLogin /\ AppOnly
    \/ handleStartAssessment /\ AppOnly
    \/ AssessmentTestResolved /\ AppOnly
    \/ AssessmentTestRejected /\ AppOnly
    \/ AppAssessmentComplete /\ AppOnly
    \/ handleStartLearning /\ AppOnly
    \/ handleReset /\ AppOnly
    \/ AppTaskComplete /\ AppOnly
    \/ AppFeedbackSubmit /\ AppOnly
    \/ handleStartLevelUpTest /\ AppOnly
    \/ LevelUpTestResolved /\ AppOnly
    \/ LevelUpTestRejected /\ AppOnly
    \/ AppLevelUpTestComplete /\ AppOnly
    \/ handleContinueFromLevelUp /\ AppOnly

\* the application shell of src/App.tsx from the opening of the page
Init ==
    /\ AppInit
    /\ idxUserData = NULL
    /\ DashUnused
    /\ LogsEmpty

Next == AppNext

Spec == Init /\ [][Next]_vars

-----------------------------------------------------------------------------
(* Claims about the application shell *)

\* a step of handleLevelUpTestComplete, for any score
LevelUpTestCompleteStep ==
    \E correct \in 0..LEVEL_UP_TEST_QUESTIONS :
        handleLevelUpTestComplete(correct)

\* C1: completing a level-up test changes the index of the learner's level
\* in CEFR_LEVELS_ORDER by 0 or by exactly +1, for every score and every
\* starting level (the last level included): it never moves the level
\* backward and never skips a level.
C1_LevelUpByZeroOrOne ==
    [][ /\ LevelUpTestCompleteStep =>
              LevelIndex(userData'.level) - LevelIndex(userData.level)
                  \in {0, 1}
        /\ \A l \in CEFRLevels : \A ok \in BOOLEAN :
              LevelIndex(NewLevel(l, ok)) - LevelIndex(l) \in {0, 1}
      ]_vars

\* a passed test has moved the learner from A2 to B1
C1_Witness ==
    /\ appState = "LEVEL_UP_RESULTS"
    /\ levelUpResult.isSuccess
    /\ userData # NULL
    /\ userData.level = CEFR_LEVELS_ORDER[3]
    /\ userData.taskHistory = <<>>

\* C2: once userData.level is set, no step other than handleReset lowers
\* its index in CEFR_LEVELS_ORDER or sets it back to null; in particular the
\* placement result is never applied over a level that is already set.
C2_LevelNeverRegresses ==
    [][ (/\ userData # NULL
         /\ userData.level # NoLevel
         /\ ~handleReset)
        => (/\ userData' # NULL
            /\ userData'.level # NoLevel
            /\ LevelIndex(userData'.level) >= LevelIndex(userData.level))
      ]_vars

-----------------------------------------------------------------------------
(* src/index.tsx, second half: handleTaskComplete of the later App *)

\* VOCABULARY_MASTERY_THRESHOLD of src/index.tsx (7); the constant of the
\* same name in src/constants.ts is 15
IDX_VOCABULARY_MASTERY_THRESHOLD == 7
MISTAKES_TO_REMEMBER == 5
\* recentTaskTypes keeps the last two task types
RECENT_TASK_TYPES_LENGTH == 2

\* an absent (undefined) or empty wordToLearn: both are falsy
NoWord == ""

\* word.toLowerCase().trim() on the words the model feeds in
LowerTrim(word) ==
    CASE word = " Cat " -> "cat"
      [] word = "CAT"   -> "cat"
      [] word = "  "    -> ""
      [] OTHER          -> word

\* Record<string, number> with no key
EmptyRecord == [w \in {} |-> 0]

\* the UserData object handleApiKeySubmit builds, with a level set
NewIdxUserData(level) ==
    [ level              |-> level,
      taskHistory        |-> <<>>,
      dailyStats         |-> [completed |-> 0, correct |-> 0],
      feedbackHistory    |-> <<>>,
      globalInstructions |-> <<>>,
      vocabularyProgress |-> EmptyRecord,
      recentMistakes     |-> <<>>,
      recentTaskTypes    |-> <<>> ]

\* taskResults.map(r => r.isCorrect)
ResultsBools(taskResults) ==
    [i \in 1..Len(taskResults) |-> taskResults[i].isCorrect]

\* the MistakeInfo recorded for the incorrect result number i (from 1)
MistakeOf(tsk, i) ==
    IF i <= Len(tsk.questions)
    THEN [ topic   |-> IF tsk.questions[i].wordToLearn # NoWord
                       THEN tsk.questions[i].wordToLearn ELSE tsk.type,
           details |-> tsk.questions[i].question ]
    ELSE [ topic   |-> IF tsk.wordToLearn # NoWord
                       THEN tsk.wordToLearn ELSE tsk.type,
           details |-> tsk.content ]

\* newMistakes: one entry per incorrect result, in the order of the results
RECURSIVE NewMistakesFrom(_, _, _)
NewMistakesFrom(taskResults, tsk, i) ==
    IF i > Len(taskResults) THEN <<>>
    ELSE (IF taskResults[i].isCorrect THEN <<>> ELSE <<MistakeOf(tsk, i)>>)
             \o NewMistakesFrom(taskResults, tsk, i + 1)

NewMistakes(taskResults, tsk) == NewMistakesFrom(taskResults, tsk, 1)

\* updatedRecentMistakes
UpdatedRecentMistakesOldestFirst(newMistakes, recentMistakes) ==
    SliceFirst(recentMistakes \o newMistakes, MISTAKES_TO_REMEMBER)
UpdatedRecentMistakes(newMistakes, recentMistakes) ==
    SliceFirst(newMistakes \o recentMistakes, MISTAKES_TO_REMEMBER)

\* newHistory
NewHistory(taskHistory, resultsBools) ==
    SliceLast(taskHistory \o resultsBools, PROGRESS_HISTORY_LENGTH)

\* newVocabProgress[word] = (newVocabProgress[word] || 0) + 1
IncrementWord(progress, word) ==
    [w \in DOMAIN progress \cup {word} |->
        IF w = word
        THEN (IF word \in DOMAIN progress THEN progress[word] ELSE 0) + 1
        ELSE progress[w]]

\* the update of newVocabProgress for one result
RecordWordRetiring(progress, result) ==
    IF result.wordToLearn # NoWord
    THEN LET word == LowerTrim(result.wordToLearn) IN
         IF word # "" /\ result.isCorrect
         THEN LET bumped == IncrementWord(progress, word) IN
              IF bumped[word] >= IDX_VOCABULARY_MASTERY_THRESHOLD
              THEN [w \in DOMAIN bumped \ {word} |-> bumped[w]]
              ELSE bumped
         ELSE progress
    ELSE progress
RecordWord(progress, result) ==
    IF result.wordToLearn # NoWord
    THEN LET word == LowerTrim(result.wordToLearn) IN
         IF word # "" /\ result.isCorrect
         THEN IncrementWord(progress, word)
         ELSE progress
    ELSE progress

\* newVocabProgress after taskResults.forEach
RECURSIVE NewVocabProgressFrom(_, _, _)
NewVocabProgressFrom(progress, taskResults, i) ==
    IF i > Len(taskResults) THEN progress
    ELSE NewVocabProgressFrom(RecordWord(progress, taskResults[i]),
                              taskResults, i + 1)

NewVocabProgress(progress, taskResults) ==
    NewVocabProgressFrom(progress, taskResults, 1)

\* newRecentTaskTypes
NewRecentTaskTypes(type, recentTaskTypes) ==
    SliceFirst(<<type>> \o recentTaskTypes, RECENT_TASK_TYPES_LENGTH)

\* the user data handleTaskComplete(payload) writes
IdxTaskCompleteData(data, payload) ==
    LET taskResults == payload.results
        tsk == payload.task
        resultsBools == ResultsBools(taskResults)
    IN [data EXCEPT
          !.taskHistory = NewHistory(data.taskHistory, resultsBools),
          !.dailyStats =
              [completed |-> data.dailyStats.completed + Len(resultsBools),
               correct |-> data.dailyStats.correct + CountTrue(resultsBools)],
          !.vocabularyProgress =
              NewVocabProgress(data.vocabularyProgress, taskResults),
          !.recentMistakes =
              UpdatedRecentMistakes(NewMistakes(taskResults, tsk),
                                    data.recentMistakes),
          !.recentTaskTypes =
              NewRecentTaskTypes(tsk.type, data.recentTaskTypes)]

\* handleTaskComplete(payload) of src/index.tsx
idxHandleTaskComplete(payload) ==
    /\ idxUserData # NULL
    /\ idxUserData' = IdxTaskCompleteData(idxUserData, payload)

\* handleFeedbackSubmit(text) of src/index.tsx
idxHandleFeedbackSubmit(text) ==
    /\ idxUserData # NULL
    /\ idxUserData' =
           [idxUserData EXCEPT !.feedbackHistory =
                SliceLast(Append(idxUserData.feedbackHistory, text),
                          FEEDBACK_HISTORY_LENGTH)]

\* canAttemptLevelUp of the LearningDashboard of src/index.tsx
idxCanAttemptLevelUp(data) ==
    LET correctCount == CountTrue(data.taskHistory)
    IN correctCount >= PROGRESS_UNLOCK_THRESHOLD

\* what handleLevelUpTestComplete of src/index.tsx writes
IdxLevelUpTestCompleteData(data, isSuccess) ==
    LET next == At(CEFR_LEVELS_ORDER, LevelIndex(data.level) + 1)
        newLevel == IF isSuccess
                    THEN (IF next # Undefined THEN next ELSE data.level)
                    ELSE data.level
    IN [data EXCEPT !.level = newLevel, !.taskHistory = <<>>]

\* learnedWords: the words generateLearningTask and the dashboard treat as
\* learned
LearnedWords(progress) ==
    { w \in DOMAIN progress : progress[w] >= IDX_VOCABULARY_MASTERY_THRESHOLD }

-----------------------------------------------------------------------------
(* The rolling history of results: both handleTaskComplete variants are   *)
(* fed the same results                                                    *)

\* results recorded in a run of the history specification
MaxResults == 103
\* incorrect results in a run of the history specification
MaxIncorrect == 1

\* batches of results of the history specification
ProgressBatches == { <<TRUE>>, <<FALSE>>, <<TRUE, TRUE>>, <<FALSE, TRUE>> }

\* the text of question number i of a task
QuestionText(i) == <<"question", i>>

\* the payload of a task of the given type whose questions number i was
\* answered with outcome bools[i] and carried the word words[i]
Payload(type, bools, words) ==
    [ results |-> [i \in 1..Len(bools) |->
                      [isCorrect |-> bools[i], wordToLearn |-> words[i]]],
      task    |-> [ type       |-> type,
                    content    |-> "content",
                    wordToLearn |-> NoWord,
                    questions  |-> [i \in 1..Len(bools) |->
                                      [question |-> QuestionText(i),
                                       wordToLearn |-> words[i]]] ] ]

CountFalse(arr) == Len(arr) - CountTrue(arr)

\* the learner has been placed and the dashboard is open, nothing recorded
ProgressInit ==
    /\ isInitializing = FALSE
    /\ appState = "LEARNING"
    /\ userData = [NewUserData EXCEPT !.level = CEFR_LEVELS_ORDER[1]]
    /\ localStorage = userData
    /\ geminiService = TRUE
    /\ assessmentQuestions = ASSESSMENT_TEST_QUESTIONS
    /\ levelUpQuestions = 0
    /\ levelUpResult = NoLevelUpResult
    /\ pendingAssessment = 0
    /\ pendingLevelUp = 0
    /\ pendingImages = <<>>
    /\ idxUserData = NewIdxUserData(CEFR_LEVELS_ORDER[1])
    /\ DashUnused
    /\ LogsEmpty

\* one completed task, reported to both variants
ProgressTaskComplete ==
    \E bools \in ProgressBatches :
        /\ Len(resultLog) + Len(bools) <= MaxResults
        /\ CountFalse(resultLog) + CountFalse(bools) <= MaxIncorrect
        /\ handleTaskComplete(bools)
        /\ idxHandleTaskComplete(
               Payload("reading", bools, [i \in 1..Len(bools) |-> NoWord]))
        /\ resultLog' = resultLog \o bools
        /\ UNCHANGED <<dashVars, typeLog, introLog, forcedInstructions,
                       mistakeLog, feedbackLog,
                       sinceLevelUp>>

ProgressNext == ProgressTaskComplete

SpecProgress == ProgressInit /\ [][ProgressNext]_vars

\* the n most recent entries of log, oldest first
MostRecent(log, n) ==
    LET k == IF Len(log) < n THEN Len(log) ELSE n IN
    [i \in 1..k |-> log[Len(log) - k + i]]

\* C9: after any sequence of handleTaskComplete calls the result history
\* holds at most PROGRESS_HISTORY_LENGTH (100) results and equals the most
\* recent results in arrival order, the oldest ones being dropped; for the
\* handler of src/App.tsx and for the one of src/index.tsx.
C9_ProgressHistoryIsLastHundred ==
    /\ Len(userData.taskHistory) <= PROGRESS_HISTORY_LENGTH
    /\ userData.taskHistory = MostRecent(resultLog, PROGRESS_HISTORY_LENGTH)
    /\ Len(idxUserData.taskHistory) <= PROGRESS_HISTORY_LENGTH
    /\ idxUserData.taskHistory = MostRecent(resultLog, PROGRESS_HISTORY_LENGTH)

\* more than 100 results have arrived and an incorrect one has been dropped
C9_Witness ==
    /\ Len(resultLog) > PROGRESS_HISTORY_LENGTH
    /\ ~resultLog[1]
    /\ Len(userData.taskHistory) = PROGRESS_HISTORY_LENGTH
    /\ CountTrue(userData.taskHistory) = PROGRESS_HISTORY_LENGTH
    /\ idxUserData.taskHistory = userData.taskHistory

-----------------------------------------------------------------------------
(* The vocabularyProgress mapping of src/index.tsx *)

\* results recorded in a run of the vocabulary-progress specification
MaxIdxCompleted == 9
\* incorrect results in a run of the vocabulary-progress specification
MaxIdxIncorrect == 1

\* the values of wordToLearn the results carry: a word, the same word in
\* another case and padded, a second word, blanks only, none
IdxWords == { "cat", " Cat ", "dog", "  ", NoWord }

\* tasks of one question, and a task of two questions
IdxPayloads ==
    { Payload("vocabulary", <<ok>>, <<w>>) : ok \in BOOLEAN, w \in IdxWords }
    \cup { Payload("vocabulary", <<TRUE, TRUE>>, <<"cat", "dog">>) }

IdxInit ==
    /\ AppUnused
    /\ idxUserData = NewIdxUserData(CEFR_LEVELS_ORDER[1])
    /\ DashUnused
    /\ LogsEmpty

\* one completed task of the later App
IdxTaskComplete ==
    \E payload \in IdxPayloads :
        LET bools == ResultsBools(payload.results) IN
        /\ Len(resultLog) + Len(bools) <= MaxIdxCompleted
        /\ CountFalse(resultLog) + CountFalse(bools) <= MaxIdxIncorrect
        /\ idxHandleTaskComplete(payload)
        /\ resultLog' = resultLog \o bools
        /\ UNCHANGED <<appVars, dashVars, typeLog, introLog, forcedInstructions,
                       mistakeLog, feedbackLog,
                       sinceLevelUp>>

IdxNext == IdxTaskComplete

SpecIdx == IdxInit /\ [][IdxNext]_vars

\* C4 as stated: a word's entry is removed from vocabularyProgress once its
\* count crosses VOCABULARY_MASTERY_THRESHOLD (7), so no entry of the mapping
\* ever holds a count above the threshold.
C4_EntryRemovedAtThreshold ==
    \A w \in DOMAIN idxUserData.vocabularyProgress :
        idxUserData.vocabularyProgress[w] <= IDX_VOCABULARY_MASTERY_THRESHOLD

\* C4 as amended: handleTaskComplete never removes an entry of
\* vocabularyProgress and never lowers a count; a word whose count has
\* reached the threshold stays in the mapping, where its count of at least
\* 7 is what marks it as learned.
C4_EntryKeptAndCounted ==
    [][ \A w \in DOMAIN idxUserData.vocabularyProgress :
          /\ w \in DOMAIN idxUserData'.vocabularyProgress
          /\ idxUserData'.vocabularyProgress[w]
                 >= idxUserData.vocabularyProgress[w]
          /\ (w \in LearnedWords(idxUserData.vocabularyProgress)
                 => w \in LearnedWords(idxUserData'.vocabularyProgress))
      ]_vars

\* a word answered correctly eight times is still in the mapping
C4_Witness ==
    /\ "cat" \in DOMAIN idxUserData.vocabularyProgress
    /\ idxUserData.vocabularyProgress["cat"]
           = IDX_VOCABULARY_MASTERY_THRESHOLD + 1
    /\ "cat" \in LearnedWords(idxUserData.vocabularyProgress)

-----------------------------------------------------------------------------
(* src/components/LearningDashboard.tsx: the vocabulary dashboard *)

VOCABULARY_MASTERY_THRESHOLD == 15
LONG_TERM_TASK_HISTORY_LENGTH == 12
CONCURRENT_WORDS_TO_LEARN == 20
RECENTLY_INTRODUCED_WORDS_MEMORY == 5
\* what an incorrect answer takes off the mastery of a word
MASTERY_PENALTY == 5

ALL_TASK_TYPES ==
    << "Translate", "FillInTheBlank", "BuildSentence", "Listen",
       "CorrectTheMistake", "MultipleChoice", "WordDefinition",
       "SynonymsAndAntonyms", "MatchDefinition", "OddOneOut",
       "Categorization" >>

\* String.prototype.toLowerCase on the words the model feeds in
ToLowerCase(word) ==
    CASE word = "CAT" -> "cat"
      [] word = "Dog" -> "dog"
      [] OTHER        -> word

\* arr.slice(start): from index start, counted from the end when negative
JsSlice(arr, start) ==
    LET len == Len(arr)
        from == IF start < 0
                THEN (IF len + start < 0 THEN 0 ELSE len + start)
                ELSE (IF start > len THEN len ELSE start)
    IN SubSeq(arr, from + 1, len)

\* arr.filter((_, i) => i !== index), index counted from 0
RemoveAt(arr, index) ==
    SubSeq(arr, 1, index) \o SubSeq(arr, index + 2, Len(arr))

\* the user data handleStartLearning saves for a placed learner
InitialUserData(level) ==
    [ level          |-> level,
      vocabulary     |-> <<>>,
      taskHistory    |-> <<>>,
      tasksCompleted |-> 0,
      recentNewWords |-> <<>> ]

\* newUserData.taskHistory
NextTaskHistoryKeepingOldest(taskHistory, type) ==
    SliceFirst(taskHistory \o <<type>>, LONG_TERM_TASK_HISTORY_LENGTH)
NextTaskHistory(taskHistory, type) ==
    JsSlice(taskHistory \o <<type>>, -LONG_TERM_TASK_HISTORY_LENGTH)

\* vocabulary.findIndex(v => v.word.toLowerCase() ===
\* wordToLearn.toLowerCase()): index from 0 of the first match, or -1
FindWordIndexExactCase(vocabulary, wordToLearn) ==
    LET hits == { i \in 1..Len(vocabulary) :
                    vocabulary[i].word = wordToLearn }
    IN IF hits = {} THEN -1
       ELSE (CHOOSE i \in hits : \A j \in hits : i <= j) - 1
FindWordIndex(vocabulary, wordToLearn) ==
    LET hits == { i \in 1..Len(vocabulary) :
                    ToLowerCase(vocabulary[i].word) = ToLowerCase(wordToLearn) }
    IN IF hits = {} THEN -1
       ELSE (CHOOSE i \in hits : \A j \in hits : i <= j) - 1

\* the mastery of a tracked word after an answer
NewMasteryByPenalty(mastery, isCorrect) ==
    IF isCorrect THEN mastery + MASTERY_PENALTY
    ELSE (IF mastery - MASTERY_PENALTY > 0 THEN mastery - MASTERY_PENALTY
          ELSE 0)
NewMasteryUnclamped(mastery, isCorrect) ==
    IF isCorrect THEN mastery + 1 ELSE mastery - MASTERY_PENALTY
NewMastery(mastery, isCorrect) ==
    IF isCorrect THEN mastery + 1
    ELSE (IF mastery - MASTERY_PENALTY > 0 THEN mastery - MASTERY_PENALTY
          ELSE 0)

\* the vocabulary after the tracked word at wordIndex was practised: the
\* word is dropped when its mastery has reached the threshold
PractisedVocabularyLate(vocabulary, wordIndex, isCorrect) ==
    LET updated == [vocabulary EXCEPT ![wordIndex + 1].mastery =
                        NewMastery(vocabulary[wordIndex + 1].mastery,
                                   isCorrect)]
    IN IF updated[wordIndex + 1].mastery > VOCABULARY_MASTERY_THRESHOLD
       THEN RemoveAt(updated, wordIndex)
       ELSE updated
PractisedVocabulary(vocabulary, wordIndex, isCorrect) ==
    LET updated == [vocabulary EXCEPT ![wordIndex + 1].mastery =
                        NewMastery(vocabulary[wordIndex + 1].mastery,
                                   isCorrect)]
    IN IF updated[wordIndex + 1].mastery >= VOCABULARY_MASTERY_THRESHOLD
       THEN RemoveAt(updated, wordIndex)
       ELSE updated

\* recentWords after a new word was introduced
NextRecentWordsKeepingFive(recentNewWords, wordToLearn) ==
    JsSlice(recentNewWords, -RECENTLY_INTRODUCED_WORDS_MEMORY)
        \o <<wordToLearn>>
NextRecentWords(recentNewWords, wordToLearn) ==
    JsSlice(recentNewWords, -RECENTLY_INTRODUCED_WORDS_MEMORY + 1)
        \o <<wordToLearn>>

\* handleNext adds the word of the task to the vocabulary
IntroducesWord(data, tsk, fb) ==
    /\ tsk.wordToLearn # NoWord
    /\ FindWordIndex(data.vocabulary, tsk.wordToLearn) = -1
    /\ tsk.type = "WordDefinition"
    /\ fb.isCorrect

\* newUserData of handleNext
NextUserData(data, tsk, fb) ==
    LET counted == [data EXCEPT
                      !.tasksCompleted = data.tasksCompleted + 1,
                      !.taskHistory = NextTaskHistory(data.taskHistory,
                                                      tsk.type)]
        wordIndex == FindWordIndex(data.vocabulary, tsk.wordToLearn)
    IN IF tsk.wordToLearn = NoWord THEN counted
       ELSE IF wordIndex # -1
       THEN [counted EXCEPT !.vocabulary =
                PractisedVocabulary(data.vocabulary, wordIndex, fb.isCorrect)]
       ELSE IF tsk.type = "WordDefinition" /\ fb.isCorrect
       THEN [counted EXCEPT
                !.vocabulary = Append(data.vocabulary,
                                 [word |-> tsk.wordToLearn, mastery |-> 1]),
                !.recentNewWords = NextRecentWords(data.recentNewWords,
                                                   tsk.wordToLearn)]
       ELSE counted

\* the task of a generateLearningTask call arrives
TaskLoaded(nextTask) ==
    /\ dashUserData # NULL
    /\ isLoading
    /\ task' = nextTask
    /\ isLoading' = FALSE
    /\ UNCHANGED <<dashUserData, feedback, error>>

\* the generateLearningTask call fails, or its task has no type
TaskLoadFailed ==
    /\ dashUserData # NULL
    /\ isLoading
    /\ error' = TRUE
    /\ isLoading' = FALSE
    /\ UNCHANGED <<dashUserData, task, feedback>>

\* the task card is shown
TaskShown ==
    /\ dashUserData # NULL
    /\ ~isLoading
    /\ ~error
    /\ task # NULL
    /\ feedback = NULL

\* the "Got it!" button of a WordDefinition task
GotIt ==
    /\ TaskShown
    /\ task.type = "WordDefinition"
    /\ feedback' = [isCorrect |-> TRUE]
    /\ UNCHANGED <<dashUserData, task, isLoading, error>>

\* handleCheckAnswer; isCorrect tells whether the normalised answer equals
\* the normalised correctAnswer
handleCheckAnswer(isCorrect) ==
    /\ TaskShown
    /\ task.type # "WordDefinition"
    /\ feedback' = [isCorrect |-> isCorrect]
    /\ UNCHANGED <<dashUserData, task, isLoading, error>>

\* handleNext, from the feedback card; saveData sets the userData prop, and
\* the effect on userData clears the feedback and asks for the next task
handleNextUngraded ==
    /\ dashUserData # NULL
    /\ ~isLoading
    /\ ~error
    /\ task # NULL
    /\ dashUserData' = NextUserData(dashUserData, task, feedback)
    /\ isLoading' = TRUE
    /\ feedback' = NULL
    /\ UNCHANGED <<task, error>>
handleNext ==
    /\ dashUserData # NULL
    /\ ~isLoading
    /\ ~error
    /\ task # NULL
    /\ feedback # NULL
    /\ dashUserData' = NextUserData(dashUserData, task, feedback)
    /\ isLoading' = TRUE
    /\ feedback' = NULL
    /\ UNCHANGED <<task, error>>

\* the dashboard is mounted for a learner placed at the first level
DashInit ==
    /\ AppUnused
    /\ idxUserData = NULL
    /\ dashUserData = InitialUserData(CEFR_LEVELS_ORDER[1])
    /\ task = NULL
    /\ feedback = NULL
    /\ isLoading = TRUE
    /\ error = FALSE
    /\ LogsEmpty

\* a handleNext step with its bookkeeping in the history variables
DashHandleNext(recordTypes) ==
    /\ handleNext
    /\ typeLog' = IF recordTypes THEN Append(typeLog, task.type) ELSE typeLog
    /\ introLog' = IF IntroducesWord(dashUserData, task, feedback)
                   THEN Append(introLog, task.wordToLearn) ELSE introLog

\* the entries of the task history of a type other than WordDefinition
PracticeCount(data) ==
    Cardinality({ i \in 1..Len(data.taskHistory) :
                    data.taskHistory[i] # "WordDefinition" })

\* the steps of the dashboard when the generator answers with a task of
\* tasks, of a type other than WordDefinition only while the task history
\* holds fewer than maxPractice of them, and at most maxTasks tasks are
\* completed
DashNext(tasks, maxTasks, maxPractice, recordTypes) ==
    \/ /\ \E nextTask \in tasks :
            /\ nextTask.type # "WordDefinition" =>
                   PracticeCount(dashUserData) < maxPractice
            /\ TaskLoaded(nextTask)
       /\ UNCHANGED <<appVars, idxVars, logVars>>
    \/ /\ TaskLoadFailed
       /\ UNCHANGED <<appVars, idxVars, logVars>>
    \/ /\ GotIt
       /\ UNCHANGED <<appVars, idxVars, logVars>>
    \/ /\ \E isCorrect \in BOOLEAN : handleCheckAnswer(isCorrect)
       /\ UNCHANGED <<appVars, idxVars, logVars>>
    \/ /\ dashUserData # NULL
       /\ dashUserData.tasksCompleted < maxTasks
       /\ DashHandleNext(recordTypes)
       /\ UNCHANGED <<appVars, idxVars, resultLog, forcedInstructions,
                      mistakeLog, feedbackLog,
                      sinceLevelUp>>

-----------------------------------------------------------------------------
(* The task history of the vocabulary dashboard *)

MaxHistTasks == 13

\* tasks without a word to learn, of two types
HistTasks ==
    { [type |-> type, wordToLearn |-> NoWord] :
        type \in {"WordDefinition", "Translate"} }

HistNext ==
    DashNext(HistTasks, MaxHistTasks, LONG_TERM_TASK_HISTORY_LENGTH + 1, TRUE)

SpecHist == DashInit /\ [][HistNext]_vars

\* C8: taskHistory holds the types of the most recently completed tasks,
\* oldest first: of all n completed tasks while n is at most
\* LONG_TERM_TASK_HISTORY_LENGTH, of the last LONG_TERM_TASK_HISTORY_LENGTH
\* afterwards, so that it never grows beyond that length.
C8_TaskHistoryIsLastTwelve ==
    dashUserData # NULL =>
        /\ Len(typeLog) = dashUserData.tasksCompleted
        /\ dashUserData.taskHistory =
               MostRecent(typeLog, LONG_TERM_TASK_HISTORY_LENGTH)
        /\ Len(dashUserData.taskHistory) <= LONG_TERM_TASK_HISTORY_LENGTH
        /\ Len(dashUserData.taskHistory) =
               (IF Len(typeLog) < LONG_TERM_TASK_HISTORY_LENGTH
                THEN Len(typeLog) ELSE LONG_TERM_TASK_HISTORY_LENGTH)

\* more tasks completed than the history holds, and the evicted type is
\* not the type that took its place at the front
C8_Witness ==
    /\ dashUserData # NULL
    /\ Len(typeLog) > LONG_TERM_TASK_HISTORY_LENGTH
    /\ typeLog[1] # dashUserData.taskHistory[1]
    /\ typeLog[Len(typeLog)] # typeLog[1]

-----------------------------------------------------------------------------
(* The vocabulary of the vocabulary dashboard *)

MaxVocabTasks == 16
MaxPractice == 1

VocabWords == {"cat", "CAT", "dog"}

\* the tasks the generator answers with: any word under either type
VocabTasks ==
    [type : {"WordDefinition", "Translate"}, wordToLearn : VocabWords]

VocabNext == DashNext(VocabTasks, MaxVocabTasks, MaxPractice, FALSE)

SpecVocab == DashInit /\ [][VocabNext]_vars

\* C3: no word of the vocabulary has a mastery of
\* VOCABULARY_MASTERY_THRESHOLD (15) or more: handleNext removes a word in
\* the step that takes it to the threshold.
C3_NoWordAtThreshold ==
    dashUserData # NULL =>
        \A i \in 1..Len(dashUserData.vocabulary) :
            dashUserData.vocabulary[i].mastery < VOCABULARY_MASTERY_THRESHOLD

\* a word was introduced, practised up to the threshold and removed while
\* another word stays in the vocabulary
C3_Witness ==
    /\ dashUserData # NULL
    /\ dashUserData.tasksCompleted >= VOCABULARY_MASTERY_THRESHOLD
    /\ introLog = <<"cat", "dog">>
    /\ Len(dashUserData.vocabulary) = 1
    /\ dashUserData.vocabulary[1].word = "dog"

\* C5: every word of the vocabulary has a mastery of 0 or more: an
\* incorrect answer takes MASTERY_PENALTY off, but not below 0.
C5_MasteryNeverNegative ==
    dashUserData # NULL =>
        \A i \in 1..Len(dashUserData.vocabulary) :
            dashUserData.vocabulary[i].mastery >= 0

\* an incorrect answer on a word with a mastery below the penalty has
\* just been saved, leaving the word at 0
C5_Witness ==
    /\ dashUserData # NULL
    /\ task # NULL
    /\ isLoading
    /\ task.type # "WordDefinition"
    /\ \E i \in 1..Len(dashUserData.vocabulary) :
          /\ ToLowerCase(dashUserData.vocabulary[i].word)
                 = ToLowerCase(task.wordToLearn)
          /\ dashUserData.vocabulary[i].mastery = 0

-----------------------------------------------------------------------------
(* The recently introduced words of the vocabulary dashboard *)

MaxWordTasks == 6

NewWords == {"cat", "dog", "sun", "map", "pen", "ink"}

\* the tasks the generator answers with: a WordDefinition task for any
\* word, or a translation of a word the vocabulary may hold or not
WordTasks ==
    [type : {"WordDefinition"}, wordToLearn : NewWords]
        \cup [type : {"Translate"}, wordToLearn : {"CAT"}]

WordsNext ==
    DashNext(WordTasks, MaxWordTasks, LONG_TERM_TASK_HISTORY_LENGTH + 1, FALSE)

SpecWords == DashInit /\ [][WordsNext]_vars

\* C10: recentNewWords holds at most RECENTLY_INTRODUCED_WORDS_MEMORY (5)
\* words: the most recently introduced ones in the order of their
\* introduction, the oldest giving way to a new one.
C10_RecentNewWordsAreLastFive ==
    dashUserData # NULL =>
        /\ Len(dashUserData.recentNewWords) <= RECENTLY_INTRODUCED_WORDS_MEMORY
        /\ dashUserData.recentNewWords =
               MostRecent(introLog, RECENTLY_INTRODUCED_WORDS_MEMORY)

\* a sixth word was introduced and the first one has left the memory
C10_Witness ==
    /\ dashUserData # NULL
    /\ Len(introLog) > RECENTLY_INTRODUCED_WORDS_MEMORY
    /\ Len(dashUserData.recentNewWords) = RECENTLY_INTRODUCED_WORDS_MEMORY
    /\ \A i \in 1..Len(dashUserData.recentNewWords) :
          dashUserData.recentNewWords[i] # introLog[1]

-----------------------------------------------------------------------------
(* src/unnamed/part_000: the task selector of the vocabulary dashboard *)

\* history.lastIndexOf(taskType): index from 0 of the last match, or -1
LastIndexOf(history, taskType) ==
    LET hits == { i \in 1..Len(history) : history[i] = taskType }
    IN IF hits = {} THEN -1
       ELSE (CHOOSE i \in hits : \A j \in hits : j <= i) - 1

\* the number Infinity, and the finite numbers
Infinity == [infinite |-> TRUE, value |-> 0]
Finite(n) == [infinite |-> FALSE, value |-> n]

\* a > b on numbers that may be Infinity
GreaterThan(a, b) ==
    IF a.infinite THEN ~b.infinite
    ELSE ~b.infinite /\ a.value > b.value

\* age of a task type in the history
AgeOfFirstOccurrence(history, taskType) ==
    LET hits == { i \in 1..Len(history) : history[i] = taskType }
    IN IF hits = {} THEN Infinity
       ELSE Finite(Len(history)
                     - (CHOOSE i \in hits : \A j \in hits : i <= j))
Age(history, taskType) ==
    LET lastIndex == LastIndexOf(history, taskType)
    IN IF lastIndex = -1 THEN Infinity
       ELSE Finite(Len(history) - 1 - lastIndex)

\* the loop of findLeastRecentTask from position i of shuffledTasks on
RECURSIVE LeastRecentFrom(_, _, _, _, _)
LeastRecentFrom(shuffledTasks, history, i, leastRecent, maxAge) ==
    IF i > Len(shuffledTasks) THEN leastRecent
    ELSE LET taskType == shuffledTasks[i]
             age == Age(history, taskType)
         IN IF taskType = "WordDefinition"
            THEN LeastRecentFrom(shuffledTasks, history, i + 1,
                                 leastRecent, maxAge)
            ELSE IF GreaterThan(age, maxAge)
            THEN LeastRecentFrom(shuffledTasks, history, i + 1, taskType, age)
            ELSE LeastRecentFrom(shuffledTasks, history, i + 1,
                                 leastRecent, maxAge)

\* findLeastRecentTask, shuffledTasks being what shuffleArray(allTasks)
\* returned to it
findLeastRecentTaskIgnoringHistory(allTasks, history, shuffledTasks) ==
    LeastRecentFrom(shuffledTasks, <<>>, 1, allTasks[1], Finite(-1))
findLeastRecentTask(allTasks, history, shuffledTasks) ==
    LeastRecentFrom(shuffledTasks, history, 1, allTasks[1], Finite(-1))

\* array rotated to start at position k
Rotation(array, k) ==
    SubSeq(array, k, Len(array)) \o SubSeq(array, 1, k - 1)

\* array reversed
Reversed(array) ==
    [i \in 1..Len(array) |-> array[Len(array) + 1 - i]]

\* results of shuffleArray(array): any permutation may be returned; these
\* are the rotations of the array and of its reversal, which put every
\* element in front of every set of other elements
shuffleArray(array) ==
    { Rotation(array, k) : k \in 1..Len(array) }
        \cup { Rotation(Reversed(array), k) : k \in 1..Len(array) }

\* [...vocabulary].sort((a, b) => a.mastery - b.mastery): the stable sort
\* by ascending mastery, by insertion from the left
RECURSIVE SortByMastery(_)
SortByMastery(vocabulary) ==
    IF vocabulary = <<>> THEN <<>>
    ELSE LET sorted == SortByMastery(SubSeq(vocabulary, 1,
                                            Len(vocabulary) - 1))
             last == vocabulary[Len(vocabulary)]
             before == Cardinality({ i \in 1..Len(sorted) :
                                       sorted[i].mastery <= last.mastery })
         IN SubSeq(sorted, 1, before) \o <<last>>
                \o SubSeq(sorted, before + 1, Len(sorted))

\* vocabulary.map(v => v.word)
WordsOf(vocabulary) ==
    [i \in 1..Len(vocabulary) |-> vocabulary[i].word]

\* no task type is named in the instruction
NoType == "none"

\* forcedInstruction of generateLearningTask: the rule that wrote it and
\* what it puts into the text
VarietyInstruction(data, shuffledTasks) ==
    [ rule     |-> "variety",
      taskType |-> findLeastRecentTask(ALL_TASK_TYPES, data.taskHistory,
                                       shuffledTasks),
      word     |-> NoWord,
      exclude  |-> <<>> ]

WeakestWordInstructionFirstWord(data) ==
    [ rule     |-> "weakestWord",
      taskType |-> NoType,
      word     |-> data.vocabulary[1].word,
      exclude  |-> <<>> ]
WeakestWordInstruction(data) ==
    [ rule     |-> "weakestWord",
      taskType |-> NoType,
      word     |-> SortByMastery(data.vocabulary)[1].word,
      exclude  |-> <<>> ]

NewWordInstructionAnyType(data) ==
    [ rule     |-> "newWord",
      taskType |-> NoType,
      word     |-> NoWord,
      exclude  |-> WordsOf(data.vocabulary) \o data.recentNewWords ]
NewWordInstruction(data) ==
    [ rule     |-> "newWord",
      taskType |-> "WordDefinition",
      word     |-> NoWord,
      exclude  |-> WordsOf(data.vocabulary) \o data.recentNewWords ]

FreeChoiceInstruction ==
    [ rule     |-> "freeChoice",
      taskType |-> NoType,
      word     |-> NoWord,
      exclude  |-> <<>> ]

\* generateLearningTask up to the request: the instruction it builds
ForcedInstructionNewWordFirst(data, shuffledTasks) ==
    IF data.tasksCompleted > 0 /\ data.tasksCompleted % 8 = 4
    THEN VarietyInstruction(data, shuffledTasks)
    ELSE IF /\ data.tasksCompleted > 0
            /\ data.tasksCompleted % 3 = 0
            /\ Len(data.vocabulary) < CONCURRENT_WORDS_TO_LEARN
    THEN NewWordInstruction(data)
    ELSE IF /\ data.tasksCompleted > 0
            /\ data.tasksCompleted % 8 = 0
            /\ Len(data.vocabulary) > 0
    THEN WeakestWordInstruction(data)
    ELSE FreeChoiceInstruction
ForcedInstruction(data, shuffledTasks) ==
    IF data.tasksCompleted > 0 /\ data.tasksCompleted % 8 = 4
    THEN VarietyInstruction(data, shuffledTasks)
    ELSE IF /\ data.tasksCompleted > 0
            /\ data.tasksCompleted % 8 = 0
            /\ Len(data.vocabulary) > 0
    THEN WeakestWordInstruction(data)
    ELSE IF /\ data.tasksCompleted > 0
            /\ data.tasksCompleted % 3 = 0
            /\ Len(data.vocabulary) < CONCURRENT_WORDS_TO_LEARN
    THEN NewWordInstruction(data)
    ELSE FreeChoiceInstruction

-----------------------------------------------------------------------------
(* The task selector applied to learner states *)

MaxSelCompleted == 25
MaxCalls == 2

SelWords ==
    << "cat", "dog", "sun", "map", "pen", "ink", "sea", "sky", "bee",
       "owl", "fox", "elk", "ant", "bat", "cow", "hen", "pig", "rat",
       "yak", "eel", "cod" >>

\* the latest types of task histories, oldest first
SelHistories ==
    { ALL_TASK_TYPES \o <<"Translate">>,
      Reversed(ALL_TASK_TYPES) \o <<"WordDefinition">>,
      << "Translate", "FillInTheBlank", "BuildSentence", "Listen",
         "CorrectTheMistake", "MultipleChoice", "WordDefinition",
         "SynonymsAndAntonyms", "MatchDefinition", "OddOneOut",
         "WordDefinition", "Translate" >>,
      << "WordDefinition", "Translate", "WordDefinition", "Listen",
         "WordDefinition", "Translate", "WordDefinition", "Listen",
         "WordDefinition", "Translate", "WordDefinition", "Listen" >>,
      Repeat("WordDefinition", LONG_TERM_TASK_HISTORY_LENGTH) }

\* masteries of the words of a vocabulary, by position
SelMastery(pattern, i) ==
    CASE pattern = 1 -> 1
      [] pattern = 2 -> IF i = 1 THEN 2 ELSE 1
      [] OTHER       -> 1 + ((i + 1) % 3)

\* vocabularies of the first size words
SelVocabulary(size, pattern) ==
    [i \in 1..size |-> [word |-> SelWords[i],
                        mastery |-> SelMastery(pattern, i)]]

RECURSIVE SumMastery(_)
SumMastery(vocabulary) ==
    IF vocabulary = <<>> THEN 0
    ELSE vocabulary[1].mastery + SumMastery(Tail(vocabulary))

\* learner states handleNext can have saved: every word took one correct
\* WordDefinition task to enter the vocabulary and one correct answer for
\* each further point of mastery
SelUserData ==
    { data \in
        { [ level          |-> CEFR_LEVELS_ORDER[1],
            vocabulary     |-> SelVocabulary(size, pattern),
            taskHistory    |-> JsSlice(history, -completed),
            tasksCompleted |-> completed,
            recentNewWords |-> JsSlice(WordsOf(SelVocabulary(size, pattern)),
                                       -RECENTLY_INTRODUCED_WORDS_MEMORY) ] :
            completed \in 0..MaxSelCompleted,
            history \in SelHistories,
            size \in 0..Len(SelWords),
            pattern \in 1..3 } :
        /\ SumMastery(data.vocabulary) <= data.tasksCompleted
        /\ Len(data.vocabulary) <=
              Cardinality({ i \in 1..Len(data.taskHistory) :
                              data.taskHistory[i] = "WordDefinition" })
                  + (data.tasksCompleted - Len(data.taskHistory)) }

\* the dashboard holds some learner state and asks for a task
SelectInit ==
    /\ AppUnused
    /\ idxUserData = NULL
    /\ dashUserData \in SelUserData
    /\ task = NULL
    /\ feedback = NULL
    /\ isLoading = TRUE
    /\ error = FALSE
    /\ LogsEmpty

\* a call of generateLearningTask(userData)
generateLearningTask ==
    /\ Len(forcedInstructions) < MaxCalls
    /\ \E shuffledTasks \in shuffleArray(ALL_TASK_TYPES) :
          forcedInstructions' =
              Append(forcedInstructions,
                     ForcedInstruction(dashUserData, shuffledTasks))
    /\ UNCHANGED <<appVars, idxVars, dashVars, resultLog, typeLog, introLog,
                   mistakeLog, feedbackLog,
                   sinceLevelUp>>

SelectNext == generateLearningTask

SpecSelect == SelectInit /\ [][SelectNext]_vars

\* the task types other than WordDefinition that the history lacks
AbsentTypes(history) ==
    { ALL_TASK_TYPES[i] : i \in 1..Len(ALL_TASK_TYPES) } \
        ({ history[i] : i \in 1..Len(history) } \cup {"WordDefinition"})

\* the variety rule applies and more than one type has never been seen
VarietyTie(data) ==
    /\ data.tasksCompleted > 0
    /\ data.tasksCompleted % 8 = 4
    /\ Cardinality(AbsentTypes(data.taskHistory)) >= 2

\* C6 as stated: two calls of generateLearningTask for the same learner
\* state put the same task category into the instruction.
C6_SameCategoryForSameState ==
    \A i, j \in 1..Len(forcedInstructions) :
        forcedInstructions[i].taskType = forcedInstructions[j].taskType

\* C6: two calls of generateLearningTask for the same learner state build
\* the same instruction, except under the variety rule when two or more
\* types other than WordDefinition are absent from taskHistory: there each
\* call names one of the absent types, chosen by the shuffle.
C6_SameCategoryUnlessVarietyTie ==
    \A i, j \in 1..Len(forcedInstructions) :
        IF VarietyTie(dashUserData)
        THEN /\ forcedInstructions[i].rule = "variety"
             /\ forcedInstructions[i].taskType
                    \in AbsentTypes(dashUserData.taskHistory)
             /\ forcedInstructions[i].word = forcedInstructions[j].word
             /\ forcedInstructions[i].exclude = forcedInstructions[j].exclude
        ELSE forcedInstructions[i] = forcedInstructions[j]

\* two calls for one learner state named different types
C6_Witness ==
    /\ Len(forcedInstructions) = 2
    /\ VarietyTie(dashUserData)
    /\ forcedInstructions[1].taskType # forcedInstructions[2].taskType

\* the branch the rules select for a task count and a vocabulary size
Branch(completed, size) ==
    CASE completed > 0 /\ completed % 8 = 4 -> "variety"
      [] /\ ~(completed > 0 /\ completed % 8 = 4)
         /\ completed > 0 /\ completed % 8 = 0 /\ size > 0 -> "weakestWord"
      [] /\ ~(completed > 0 /\ completed % 8 = 4)
         /\ ~(completed > 0 /\ completed % 8 = 0 /\ size > 0)
         /\ completed > 0 /\ completed % 3 = 0
         /\ size < CONCURRENT_WORDS_TO_LEARN -> "newWord"
      [] OTHER -> "freeChoice"

\* C7: the branch of generateLearningTask depends on tasksCompleted and
\* the size of the vocabulary only, in this priority: the variety task when
\* tasksCompleted > 0 and tasksCompleted mod 8 = 4; else weakest-word
\* practice when tasksCompleted > 0, tasksCompleted mod 8 = 0 and the
\* vocabulary is not empty; else a new WordDefinition task when
\* tasksCompleted > 0, tasksCompleted mod 3 = 0 and the vocabulary holds
\* fewer than 20 words; else free choice among all task types.
C7_BranchPriority ==
    \A i \in 1..Len(forcedInstructions) :
        LET instruction == forcedInstructions[i]
        IN /\ instruction.rule = Branch(dashUserData.tasksCompleted,
                                        Len(dashUserData.vocabulary))
           /\ instruction.rule = "variety" =>
                  /\ instruction.taskType # "WordDefinition"
                  /\ instruction.taskType # NoType
           /\ instruction.rule = "weakestWord" =>
                  \E k \in 1..Len(dashUserData.vocabulary) :
                      dashUserData.vocabulary[k].word = instruction.word
           /\ instruction.rule = "newWord" =>
                  instruction.taskType = "WordDefinition"
           /\ instruction.rule = "freeChoice" => instruction.taskType = NoType

\* a call at a task count where both the weakest-word rule and the
\* new-word rule would apply: the weakest word is practised
C7_Witness ==
    /\ Len(forcedInstructions) > 0
    /\ dashUserData.tasksCompleted % 8 = 0
    /\ dashUserData.tasksCompleted % 3 = 0
    /\ dashUserData.tasksCompleted > 0
    /\ Len(dashUserData.vocabulary) > 0
    /\ Len(dashUserData.vocabulary) < CONCURRENT_WORDS_TO_LEARN
    /\ forcedInstructions[1].rule = "weakestWord"

-----------------------------------------------------------------------------
(* The remembered mistakes of src/index.tsx *)

\* results recorded in a run of the mistakes specification
MaxMistakeResults == 7

\* the outcomes of the questions of one task
MistakeBatches ==
    { <<TRUE>>, <<FALSE>>, <<FALSE, FALSE>>, <<FALSE, TRUE, FALSE>>,
      Repeat(FALSE, MISTAKES_TO_REMEMBER + 1) }

\* the payload of a task without questions, answered incorrectly
NoQuestionsPayload(type, word) ==
    [ results |-> << [isCorrect |-> FALSE, wordToLearn |-> NoWord] >>,
      task    |-> [ type        |-> type,
                    content     |-> "content",
                    wordToLearn |-> word,
                    questions   |-> <<>> ] ]

\* tasks with questions, with a question on a word, without questions
MistakePayloads ==
    { Payload("reading", bools, [i \in 1..Len(bools) |-> NoWord]) :
        bools \in MistakeBatches }
    \cup { Payload("vocabulary", <<FALSE>>, <<"cat">>),
           NoQuestionsPayload("image", "dog") }

\* one completed task of the later App, its mistakes put in front of the
\* earlier ones in the log
MistakesTaskComplete ==
    \E payload \in MistakePayloads :
        LET bools == ResultsBools(payload.results) IN
        /\ Len(resultLog) + Len(bools) <= MaxMistakeResults
        /\ idxHandleTaskComplete(payload)
        /\ resultLog' = resultLog \o bools
        /\ mistakeLog' = NewMistakes(payload.results, payload.task)
                             \o mistakeLog
        /\ UNCHANGED <<appVars, dashVars, typeLog, introLog,
                       forcedInstructions, feedbackLog,
                       sinceLevelUp>>

MistakesNext == MistakesTaskComplete

SpecMistakes == IdxInit /\ [][MistakesNext]_vars

\* C11: recentMistakes holds at most MISTAKES_TO_REMEMBER (5) entries: the
\* first entries of the list of all mistakes in which the mistakes of a
\* later task stand before those of every earlier task, so that the latest
\* task comes first and earlier tasks lose their mistakes before later ones.
C11_RecentMistakesAreLatestFive ==
    /\ Len(idxUserData.recentMistakes) <= MISTAKES_TO_REMEMBER
    /\ idxUserData.recentMistakes =
           SliceFirst(mistakeLog, MISTAKES_TO_REMEMBER)

\* more mistakes were made than are remembered: a mistake of the first task
\* has gone while the mistakes of a later task are kept
C11_Witness ==
    /\ Len(mistakeLog) > MISTAKES_TO_REMEMBER
    /\ Len(idxUserData.recentMistakes) = MISTAKES_TO_REMEMBER
    /\ \A i \in 1..Len(idxUserData.recentMistakes) :
          idxUserData.recentMistakes[i] # mistakeLog[Len(mistakeLog)]
    /\ mistakeLog[Len(mistakeLog)].topic = "cat"
    /\ idxUserData.recentMistakes[1].topic = "dog"

-----------------------------------------------------------------------------
(* The feedback history: both handleFeedbackSubmit variants are fed the   *)
(* same texts                                                              *)

\* texts submitted in a run of the feedback specification
MaxFeedback == 22
\* of them, texts other than the first of FeedbackTexts
MaxOtherFeedback == 2

\* the number of entries of log equal to text
RECURSIVE CountOf(_, _)
CountOf(log, text) ==
    IF log = <<>> THEN 0
    ELSE (IF Head(log) = text THEN 1 ELSE 0) + CountOf(Tail(log), text)

\* one submitted text, handed to both variants
FeedbackSubmit ==
    \E text \in FeedbackTexts :
        /\ Len(feedbackLog) < MaxFeedback
        /\ text # "too easy" =>
               CountOf(feedbackLog, "too easy") + MaxOtherFeedback
                   > Len(feedbackLog)
        /\ handleFeedbackSubmit(text)
        /\ idxHandleFeedbackSubmit(text)
        /\ feedbackLog' = Append(feedbackLog, text)
        /\ UNCHANGED <<dashVars, resultLog, typeLog, introLog,
                       forcedInstructions, mistakeLog, sinceLevelUp>>

FeedbackNext == FeedbackSubmit

SpecFeedback == ProgressInit /\ [][FeedbackNext]_vars

\* C12: feedbackHistory holds at most 20 texts: the most recently submitted
\* ones in the order of submission, the oldest giving way to a new one; for
\* the handler of src/App.tsx and for the one of src/index.tsx.
C12_FeedbackHistoryIsLastTwenty ==
    /\ Len(userData.feedbackHistory) <= FEEDBACK_HISTORY_LENGTH
    /\ userData.feedbackHistory =
           MostRecent(feedbackLog, FEEDBACK_HISTORY_LENGTH)
    /\ idxUserData.feedbackHistory = userData.feedbackHistory
    /\ localStorage = userData

\* more than 20 texts were submitted, and the first one, which has gone,
\* differs from the one now in front
C12_Witness ==
    /\ Len(feedbackLog) > FEEDBACK_HISTORY_LENGTH
    /\ Len(userData.feedbackHistory) = FEEDBACK_HISTORY_LENGTH
    /\ feedbackLog[1] # userData.feedbackHistory[1]
    /\ feedbackLog[Len(feedbackLog)] # feedbackLog[1]

-----------------------------------------------------------------------------
(* The offer of the level-up test *)

\* results recorded in a run of the unlock specification
MaxUnlockResults == 5

\* result histories of earlier sessions around the unlock threshold
UnlockHistories ==
    { Repeat(TRUE, PROGRESS_UNLOCK_THRESHOLD - 1),
      Repeat(TRUE, PROGRESS_UNLOCK_THRESHOLD)
          \o Repeat(FALSE, PROGRESS_HISTORY_LENGTH
                               - PROGRESS_UNLOCK_THRESHOLD - 1),
      Repeat(FALSE, PROGRESS_HISTORY_LENGTH - PROGRESS_UNLOCK_THRESHOLD)
          \o Repeat(TRUE, PROGRESS_UNLOCK_THRESHOLD - 1),
      Repeat(FALSE, PROGRESS_HISTORY_LENGTH - PROGRESS_UNLOCK_THRESHOLD + 1)
          \o Repeat(TRUE, PROGRESS_UNLOCK_THRESHOLD - 1) }

\* the payload of a task of one question
OneResult(ok) == Payload("reading", <<ok>>, <<NoWord>>)

\* the user data of src/index.tsx after the one-question tasks of history,
\* on a later day
UnlockIdxData(history) ==
    LET mistake == MistakeOf(OneResult(FALSE).task, 1) IN
    [NewIdxUserData(CEFR_LEVELS_ORDER[1]) EXCEPT
        !.taskHistory = history,
        !.recentMistakes =
            SliceFirst(Repeat(mistake, CountFalse(history)),
                       MISTAKES_TO_REMEMBER),
        !.recentTaskTypes =
            SliceFirst(Repeat("reading", Len(history)),
                       RECENT_TASK_TYPES_LENGTH)]

\* the dashboard is open on a later day of a learner with some history
UnlockInit ==
    \E history \in UnlockHistories :
        /\ isInitializing = FALSE
        /\ appState = "LEARNING"
        /\ userData = [NewUserData EXCEPT !.level = CEFR_LEVELS_ORDER[1],
                                          !.taskHistory = history]
        /\ localStorage = userData
        /\ geminiService = TRUE
        /\ assessmentQuestions = ASSESSMENT_TEST_QUESTIONS
        /\ levelUpQuestions = 0
        /\ levelUpResult = NoLevelUpResult
        /\ pendingAssessment = 0
        /\ pendingLevelUp = 0
        /\ pendingImages = <<>>
        /\ idxUserData = UnlockIdxData(history)
        /\ DashUnused
        /\ resultLog = history
        /\ typeLog = <<>>
        /\ introLog = <<>>
        /\ forcedInstructions = <<>>
        /\ mistakeLog = <<>>
        /\ feedbackLog = <<>>
        /\ sinceLevelUp = NoTest

\* one completed task of one question, reported to both variants
UnlockTaskComplete ==
    \E ok \in BOOLEAN :
        /\ userData.dailyStats.completed < MaxUnlockResults
        /\ handleTaskComplete(<<ok>>)
        /\ idxHandleTaskComplete(OneResult(ok))
        /\ resultLog' = Append(resultLog, ok)
        /\ UNCHANGED <<dashVars, typeLog, introLog, forcedInstructions,
                       mistakeLog, feedbackLog,
                       sinceLevelUp>>

UnlockNext == UnlockTaskComplete

SpecUnlock == UnlockInit /\ [][UnlockNext]_vars

\* the LearningDashboard shows the button that starts the level-up test
LevelUpOffered ==
    /\ DashboardRendered
    /\ canAttemptLevelUp(userData)

\* C13: the level-up test is offered exactly when at least
\* PROGRESS_UNLOCK_THRESHOLD (80) of the retained results, the last
\* PROGRESS_HISTORY_LENGTH (100) at most, are correct, after every
\* completed task; for the dashboard of part_005 and the one of index.tsx.
C13_OfferedIffEightyOfRetained ==
    LET retained == MostRecent(resultLog, PROGRESS_HISTORY_LENGTH)
        unlocked == CountTrue(retained) >= PROGRESS_UNLOCK_THRESHOLD
    IN /\ DashboardRendered
       /\ LevelUpOffered <=> unlocked
       /\ idxCanAttemptLevelUp(idxUserData) <=> unlocked

\* the offer has been withdrawn: more than 80 results were correct in all,
\* but a correct one has left the window of the last 100
C13_Witness ==
    /\ CountTrue(resultLog) >= PROGRESS_UNLOCK_THRESHOLD
    /\ Len(resultLog) > PROGRESS_HISTORY_LENGTH
    /\ ~LevelUpOffered
    /\ ~idxCanAttemptLevelUp(idxUserData)

-----------------------------------------------------------------------------
(* The progress history after a level-up test *)

\* C14: completing a level-up test leaves taskHistory empty, in the state
\* and in the store, whether the test was passed or failed; the handler of
\* src/index.tsx writes an empty taskHistory for either outcome as well.
C14_LevelUpTestResetsHistory ==
    [][ /\ LevelUpTestCompleteStep =>
              /\ userData'.taskHistory = <<>>
              /\ localStorage'.taskHistory = <<>>
        /\ \A l \in CEFRLevels : \A ok \in BOOLEAN :
              IdxLevelUpTestCompleteData(
                  [NewIdxUserData(l) EXCEPT !.taskHistory =
                       Repeat(TRUE, PROGRESS_UNLOCK_THRESHOLD)],
                  ok).taskHistory = <<>>
      ]_vars

\* a failed test: the level is kept and the progress history is empty
C14_Witness ==
    /\ appState = "LEVEL_UP_RESULTS"
    /\ ~levelUpResult.isSuccess
    /\ userData # NULL
    /\ userData.level = CEFR_LEVELS_ORDER[1]
    /\ userData.taskHistory = <<>>
    /\ localStorage = userData

-----------------------------------------------------------------------------
(* The learner state changes only for a loaded and graded task *)

\* C15: the learner state of the dashboard changes, and is saved, only in a
\* step taken for a task that is loaded and has a grading outcome, and the
\* new state is the one handleNext computes from that task and outcome
C15_UpdateOnlyWhenLoadedAndGraded ==
    [][dashUserData' # dashUserData =>
           /\ task # NULL
           /\ feedback # NULL
           /\ dashUserData' = NextUserData(dashUserData, task, feedback)]_vars

\* a task was counted, and the next one is loaded but not graded yet
C15_Witness ==
    /\ dashUserData # NULL
    /\ dashUserData.tasksCompleted = 2
    /\ Len(dashUserData.taskHistory) = 2
    /\ TaskShown

-----------------------------------------------------------------------------
(* The write of the user data when a generated image arrives *)

\* the shell with a learner who answers quiz and image tasks, resets and
\* logs in again, while image requests are in flight
ImageNext ==
    \/ MountEffect /\ AppOnly
    \/ handleLogin /\ AppOnly
    \/ handleReset /\ AppOnly
    \/ AppTaskComplete /\ AppOnly
    \/ AppFeedbackSubmit /\ AppOnly
    \/ AppImageTaskComplete /\ AppOnly
    \/ ImageResolved /\ AppOnly
    \/ ImageRejected /\ AppOnly

SpecImage == Init /\ [][ImageNext]_vars

\* C16: the user data written when the image of a correctly answered image
\* task arrives keeps the results of the tasks completed so far: the step
\* leaves taskHistory and dailyStats of the learner as they are
C16_ImageWriteKeepsResults ==
    [][(ImageResolved /\ userData # NULL) =>
           /\ userData'.taskHistory = userData.taskHistory
           /\ userData'.dailyStats = userData.dailyStats]_vars

\* the image arrived and the result of its task, recorded before, is gone
\* from the state and from the store
C16_ResultLost ==
    /\ userData # NULL
    /\ userData.imageGeneration.count = 1
    /\ userData.taskHistory = <<>>
    /\ userData.dailyStats.completed = 0
    /\ localStorage = userData
    /\ pendingImages = <<>>

-----------------------------------------------------------------------------
(* Requests in flight when the learner resets *)

\* the App component shows the AuthScreen of a learner who is logged out
LoggedOut ==
    /\ ~isInitializing
    /\ appState = "AUTH"
    /\ userData = NULL

\* C17: once handleReset has run, appState stays AUTH and userData stays
\* null until the next login, whatever request started before the reset
\* completes after it: a step taken from the logged-out state is a login
\* or leaves the state logged out
C17_LoggedOutUntilLogin ==
    [][LoggedOut => (handleLogin \/ LoggedOut')]_vars

\* the questions of a level-up test asked for before the reset arrived
\* after it: the App component is in LEVEL_UP_ASSESSING without user data
C17_StaleRequestLeavesAuth ==
    /\ ~isInitializing
    /\ appState = "LEVEL_UP_ASSESSING"
    /\ userData = NULL
    /\ localStorage = NULL

-----------------------------------------------------------------------------
(* The weakest-word rule and the new-word rule of the selector *)

\* the least mastery of the words of a vocabulary that is not empty
MinMastery(vocabulary) ==
    CHOOSE m \in { vocabulary[i].mastery : i \in 1..Len(vocabulary) } :
        \A i \in 1..Len(vocabulary) : m <= vocabulary[i].mastery

\* the first position of a vocabulary whose word has the least mastery
FirstWeakest(vocabulary) ==
    CHOOSE k \in 1..Len(vocabulary) :
        /\ vocabulary[k].mastery = MinMastery(vocabulary)
        /\ \A i \in 1..(k - 1) :
               vocabulary[i].mastery > MinMastery(vocabulary)

\* tasksCompleted is a positive multiple of n
PositiveMultiple(completed, n) == completed > 0 /\ completed % n = 0

\* C18 as stated: at every tasksCompleted that is a positive multiple of 8
\* the instruction of generateLearningTask names a vocabulary word of
\* minimum mastery to practise.
C18_WeakestWordAtEveryEighth ==
    \A i \in 1..Len(forcedInstructions) :
        PositiveMultiple(dashUserData.tasksCompleted, 8) =>
            /\ forcedInstructions[i].rule = "weakestWord"
            /\ \E k \in 1..Len(dashUserData.vocabulary) :
                  /\ dashUserData.vocabulary[k].word
                         = forcedInstructions[i].word
                  /\ dashUserData.vocabulary[k].mastery
                         = MinMastery(dashUserData.vocabulary)

\* C18: at every tasksCompleted that is a positive multiple of 8 and with a
\* vocabulary that is not empty, the instruction names the first word of
\* minimum mastery of the vocabulary and no task type; with an empty
\* vocabulary no word is named: the instruction is the new-word one when
\* tasksCompleted is also a multiple of 3, and free choice otherwise.
C18_WeakestWordWhenVocabularyNotEmpty ==
    \A i \in 1..Len(forcedInstructions) :
        PositiveMultiple(dashUserData.tasksCompleted, 8) =>
            IF dashUserData.vocabulary # <<>>
            THEN /\ forcedInstructions[i].rule = "weakestWord"
                 /\ forcedInstructions[i].taskType = NoType
                 /\ forcedInstructions[i].word =
                        dashUserData.vocabulary[
                            FirstWeakest(dashUserData.vocabulary)].word
            ELSE /\ forcedInstructions[i].word = NoWord
                 /\ forcedInstructions[i].rule =
                        IF dashUserData.tasksCompleted % 3 = 0
                        THEN "newWord" ELSE "freeChoice"

\* a call at 16 completed tasks names a weakest word that is not the first
\* word of the vocabulary
C18_Witness ==
    /\ Len(forcedInstructions) > 0
    /\ dashUserData.tasksCompleted = 16
    /\ Len(dashUserData.vocabulary) > 1
    /\ forcedInstructions[1].rule = "weakestWord"
    /\ forcedInstructions[1].word # dashUserData.vocabulary[1].word
    /\ forcedInstructions[1].word = dashUserData.vocabulary[2].word

\* the new-word rule is reached: neither the variety rule nor the
\* weakest-word rule applies
NewWordRuleReached(data) ==
    /\ data.tasksCompleted % 8 # 4
    /\ ~(data.tasksCompleted % 8 = 0 /\ data.vocabulary # <<>>)

\* C19 as stated: at every tasksCompleted that is a positive multiple of 3
\* and with fewer than 20 words in the vocabulary, the instruction asks
\* for a new-word WordDefinition task.
C19_NewWordAtEveryThird ==
    \A i \in 1..Len(forcedInstructions) :
        ( /\ PositiveMultiple(dashUserData.tasksCompleted, 3)
          /\ Len(dashUserData.vocabulary) < CONCURRENT_WORDS_TO_LEARN ) =>
            /\ forcedInstructions[i].rule = "newWord"
            /\ forcedInstructions[i].taskType = "WordDefinition"

\* C19: at every tasksCompleted that is a positive multiple of 3 and with
\* fewer than 20 words in the vocabulary, the instruction asks for a
\* WordDefinition task with a word outside the vocabulary and the recent
\* new words, unless tasksCompleted mod 8 = 4 (the variety task is asked
\* for) or tasksCompleted mod 8 = 0 with a vocabulary that is not empty
\* (the weakest word is practised, not in a WordDefinition task).
C19_NewWordUnlessEarlierRule ==
    \A i \in 1..Len(forcedInstructions) :
        ( /\ PositiveMultiple(dashUserData.tasksCompleted, 3)
          /\ Len(dashUserData.vocabulary) < CONCURRENT_WORDS_TO_LEARN ) =>
            IF NewWordRuleReached(dashUserData)
            THEN /\ forcedInstructions[i].rule = "newWord"
                 /\ forcedInstructions[i].taskType = "WordDefinition"
                 /\ forcedInstructions[i].exclude =
                        WordsOf(dashUserData.vocabulary)
                            \o dashUserData.recentNewWords
            ELSE /\ forcedInstructions[i].rule \in {"variety", "weakestWord"}
                 /\ forcedInstructions[i].taskType # "WordDefinition"

\* a call at 21 completed tasks with the vocabulary one word short of
\* full: a new word is asked for, outside the words already held
C19_Witness ==
    /\ Len(forcedInstructions) > 0
    /\ dashUserData.tasksCompleted = 21
    /\ Len(dashUserData.vocabulary) = CONCURRENT_WORDS_TO_LEARN - 1
    /\ forcedInstructions[1].rule = "newWord"
    /\ forcedInstructions[1].taskType = "WordDefinition"
    /\ Len(forcedInstructions[1].exclude) > Len(dashUserData.vocabulary)

-----------------------------------------------------------------------------
(* The size of the vocabulary *)

\* tasks completed in a run of the vocabulary-size specification
MaxCapTasks == 22
\* tasks of a type other than WordDefinition kept in its task history
MaxCapPractice == 1

\* the generator answers with a WordDefinition task for a word the learner
\* does not hold yet, whatever the instruction asked for
CapNewWordTask(data) ==
    [ type        |-> "WordDefinition",
      wordToLearn |-> SelWords[Len(data.vocabulary) + 1] ]

\* the generator answers with a task that names no word
CapPracticeTask == [type |-> "Translate", wordToLearn |-> NoWord]

CapNext ==
    \/ /\ dashUserData # NULL
       /\ Len(dashUserData.vocabulary) < Len(SelWords)
       /\ TaskLoaded(CapNewWordTask(dashUserData))
       /\ UNCHANGED <<appVars, idxVars, logVars>>
    \/ /\ dashUserData # NULL
       /\ PracticeCount(dashUserData) < MaxCapPractice
       /\ TaskLoaded(CapPracticeTask)
       /\ UNCHANGED <<appVars, idxVars, logVars>>
    \/ /\ TaskLoadFailed
       /\ UNCHANGED <<appVars, idxVars, logVars>>
    \/ /\ GotIt
       /\ UNCHANGED <<appVars, idxVars, logVars>>
    \/ /\ \E isCorrect \in BOOLEAN : handleCheckAnswer(isCorrect)
       /\ UNCHANGED <<appVars, idxVars, logVars>>
    \/ /\ dashUserData # NULL
       /\ dashUserData.tasksCompleted < MaxCapTasks
       /\ DashHandleNext(FALSE)
       /\ UNCHANGED <<appVars, idxVars, resultLog, forcedInstructions,
                      mistakeLog, feedbackLog,
                      sinceLevelUp>>

SpecCap == DashInit /\ [][CapNext]_vars

\* C20: the vocabulary of the learner never holds more than
\* CONCURRENT_WORDS_TO_LEARN words, whatever tasks the generator returns
\* and whatever the answers are.
C20_VocabularyAtMostTwenty ==
    dashUserData # NULL =>
        Len(dashUserData.vocabulary) <= CONCURRENT_WORDS_TO_LEARN

\* handleNext added a twenty-first word to a full vocabulary
C20_TwentyFirstWord ==
    /\ dashUserData # NULL
    /\ Len(dashUserData.vocabulary) = CONCURRENT_WORDS_TO_LEARN + 1
    /\ Len(introLog) = CONCURRENT_WORDS_TO_LEARN + 1

-----------------------------------------------------------------------------
(* findLeastRecentTask on task histories *)

\* calls of generateLearningTask in a run of the variety specification
MaxLeastCalls == 1

\* the types that end the histories below
LeastTails == {"Translate", "OddOneOut", "WordDefinition"}

\* task histories of twelve entries, oldest first: every type once in some
\* rotation and one type again, or one type left out and one type twice
\* more
LeastHistories ==
    { Rotation(ALL_TASK_TYPES, k) \o <<tail>> :
        k \in 1..Len(ALL_TASK_TYPES), tail \in LeastTails }
    \cup
    { SubSeq(Rotation(ALL_TASK_TYPES, k), 2, Len(ALL_TASK_TYPES))
          \o <<tail, tail>> :
        k \in 1..Len(ALL_TASK_TYPES), tail \in LeastTails }

\* learner states at which the variety rule applies: 4, 12 or 20 completed
\* tasks, with the last entries of a history
LeastUserData ==
    { [ level          |-> CEFR_LEVELS_ORDER[1],
        vocabulary     |-> <<>>,
        taskHistory    |-> JsSlice(history, -completed),
        tasksCompleted |-> completed,
        recentNewWords |-> <<>> ] :
        completed \in {4, 12, 20}, history \in LeastHistories }

LeastInit ==
    /\ AppUnused
    /\ idxUserData = NULL
    /\ dashUserData \in LeastUserData
    /\ task = NULL
    /\ feedback = NULL
    /\ isLoading = TRUE
    /\ error = FALSE
    /\ LogsEmpty

\* a call of generateLearningTask(userData) under the variety rule
LeastRecentCall ==
    /\ Len(forcedInstructions) < MaxLeastCalls
    /\ \E shuffledTasks \in shuffleArray(ALL_TASK_TYPES) :
          forcedInstructions' =
              Append(forcedInstructions,
                     ForcedInstruction(dashUserData, shuffledTasks))
    /\ UNCHANGED <<appVars, idxVars, dashVars, resultLog, typeLog, introLog,
                   mistakeLog, feedbackLog,
                   sinceLevelUp>>

LeastNext == LeastRecentCall

SpecLeast == LeastInit /\ [][LeastNext]_vars

\* the task types a variety task may have
PracticeTypes ==
    { ALL_TASK_TYPES[i] : i \in 1..Len(ALL_TASK_TYPES) } \ {"WordDefinition"}

\* the type occurs in the history
Occurs(history, taskType) ==
    \E i \in 1..Len(history) : history[i] = taskType

\* no entry of the history from position i on has the type
NotSince(history, taskType, i) ==
    \A j \in i..Len(history) : history[j] # taskType

\* C21: findLeastRecentTask(ALL_TASK_TYPES, history) returns a type other
\* than WordDefinition of maximal age: a type that does not occur in the
\* history when there is one, and otherwise the type whose last occurrence
\* is the earliest, i.e. every other such type occurs after the last
\* occurrence of the returned one.
C21_LeastRecentHasMaximalAge ==
    \A c \in 1..Len(forcedInstructions) :
        LET history == dashUserData.taskHistory
            chosen == forcedInstructions[c].taskType
        IN /\ chosen \in PracticeTypes
           /\ IF \E t \in PracticeTypes : ~Occurs(history, t)
              THEN ~Occurs(history, chosen)
              ELSE \E i \in 1..Len(history) :
                      /\ history[i] = chosen
                      /\ NotSince(history, chosen, i + 1)
                      /\ \A t \in PracticeTypes \ {chosen} :
                             ~NotSince(history, t, i + 1)

\* every type other than WordDefinition occurs in the history, Translate
\* first and last, and the type that follows the first Translate is
\* returned
C21_Witness ==
    /\ Len(forcedInstructions) = 1
    /\ \A t \in PracticeTypes : Occurs(dashUserData.taskHistory, t)
    /\ dashUserData.taskHistory[1] = "Translate"
    /\ dashUserData.taskHistory[12] = "Translate"
    /\ forcedInstructions[1].taskType = "FillInTheBlank"

-----------------------------------------------------------------------------
(* How words enter the vocabulary and how their mastery moves *)

\* the words of a vocabulary, as a set
WordSet(vocabulary) == { vocabulary[i].word : i \in 1..Len(vocabulary) }

\* C22: a step puts a word into the vocabulary only when the task completed
\* is a WordDefinition task with a correct outcome whose word equals no
\* word of the vocabulary when case is ignored; the word enters at the end
\* with mastery 1 and the other entries stay as they are.
C22_WordAddedOnlyByCorrectDefinition ==
    [][(/\ dashUserData # NULL
        /\ dashUserData' # NULL
        /\ ~(WordSet(dashUserData'.vocabulary)
                \subseteq WordSet(dashUserData.vocabulary))) =>
           /\ task # NULL
           /\ feedback # NULL
           /\ task.type = "WordDefinition"
           /\ feedback.isCorrect
           /\ \A i \in 1..Len(dashUserData.vocabulary) :
                  ToLowerCase(dashUserData.vocabulary[i].word)
                      # ToLowerCase(task.wordToLearn)
           /\ dashUserData'.vocabulary =
                  Append(dashUserData.vocabulary,
                         [word |-> task.wordToLearn, mastery |-> 1])]_vars

\* "cat" entered by a WordDefinition task; a WordDefinition task for "CAT"
\* and a Translate task for "dog" were completed after it and added nothing
C22_Witness ==
    /\ dashUserData # NULL
    /\ introLog = <<"cat">>
    /\ dashUserData.tasksCompleted = 3
    /\ dashUserData.taskHistory
           = <<"WordDefinition", "WordDefinition", "Translate">>
    /\ WordSet(dashUserData.vocabulary) = {"cat"}
    /\ dashUserData.vocabulary[1].mastery = 2
    /\ isLoading
    /\ task # NULL
    /\ task.type = "Translate"
    /\ task.wordToLearn = "dog"

\* the positions of a vocabulary whose word is the given one, ignoring case
Tracked(vocabulary, wordToLearn) ==
    { i \in 1..Len(vocabulary) :
        ToLowerCase(vocabulary[i].word) = ToLowerCase(wordToLearn) }

\* the vocabulary without its entry at position k
Without(vocabulary, k) ==
    SubSeq(vocabulary, 1, k - 1) \o SubSeq(vocabulary, k + 1, Len(vocabulary))

\* C23: when the task completed names a word that is tracked, a correct
\* outcome takes the mastery of that word up by exactly 1 and an incorrect
\* one takes it down by 5, but not below 0; the entry keeps the new
\* mastery, or leaves the vocabulary when the new mastery has reached
\* VOCABULARY_MASTERY_THRESHOLD, and no other entry changes.
C23_MasteryUpOneDownFive ==
    [][(/\ dashUserData # NULL
        /\ dashUserData' # dashUserData
        /\ task # NULL
        /\ task.wordToLearn # NoWord
        /\ Tracked(dashUserData.vocabulary, task.wordToLearn) # {}) =>
           LET vocabulary == dashUserData.vocabulary
               hits == Tracked(vocabulary, task.wordToLearn)
               k == CHOOSE i \in hits : \A j \in hits : i <= j
               old == vocabulary[k].mastery
               new == IF feedback.isCorrect THEN old + 1
                      ELSE IF old >= 5 THEN old - 5 ELSE 0
           IN dashUserData'.vocabulary =
                  IF new >= VOCABULARY_MASTERY_THRESHOLD
                  THEN Without(vocabulary, k)
                  ELSE [vocabulary EXCEPT ![k].mastery = new]]_vars

\* "cat" was introduced, taken to mastery 7 by six more correct outcomes
\* and then to 2 by an incorrect translation
C23_Witness ==
    /\ dashUserData # NULL
    /\ introLog = <<"cat">>
    /\ dashUserData.tasksCompleted = 8
    /\ PracticeCount(dashUserData) = 1
    /\ Len(dashUserData.vocabulary) = 1
    /\ dashUserData.vocabulary[1].mastery = 2
    /\ isLoading
    /\ task # NULL
    /\ task.type = "Translate"

-----------------------------------------------------------------------------
(* The outcome of the level-up test *)

\* the last level of CEFR_LEVELS_ORDER
LastLevel == CEFR_LEVELS_ORDER[Len(CEFR_LEVELS_ORDER)]

\* C24: handleLevelUpTestComplete moves the learner to the next level of
\* CEFR_LEVELS_ORDER if and only if at least four fifths of the answers are
\* correct and the current level is not the last one; in every other case
\* the level stays as it is. The handler of src/index.tsx writes the same
\* level for a passed and for a failed test.
C24_AdvanceIffPassedBelowLastLevel ==
    [][ /\ \A correct \in 0..LEVEL_UP_TEST_QUESTIONS :
              handleLevelUpTestComplete(correct) =>
                  IF 5 * correct >= 4 * levelUpQuestions
                     /\ userData.level # LastLevel
                  THEN /\ userData'.level # userData.level
                       /\ LevelIndex(userData'.level)
                              = LevelIndex(userData.level) + 1
                  ELSE userData'.level = userData.level
        /\ \A l \in CEFRLevels : \A ok \in BOOLEAN :
              LevelIndex(IdxLevelUpTestCompleteData(NewIdxUserData(l),
                                                    ok).level)
                  = LevelIndex(l) + (IF ok /\ l # LastLevel THEN 1 ELSE 0)
      ]_vars

\* a test was completed at the last level, which the learner keeps
C24_Witness ==
    /\ appState = "LEVEL_UP_RESULTS"
    /\ userData # NULL
    /\ userData.level = LastLevel
    /\ levelUpQuestions = LEVEL_UP_TEST_QUESTIONS
    /\ levelUpResult = NoLevelUpResult

-----------------------------------------------------------------------------
(* The level-up test after a level-up test *)

\* results recorded in one day in the specification of repeated tests
MaxRetestCompleted == 4

\* the learner is at the dashboard, one correct result short of the
\* level-up test, and no test has been completed
RetestInit ==
    /\ isInitializing = FALSE
    /\ appState = "LEARNING"
    /\ userData = [NewUserData EXCEPT
                      !.level = CEFR_LEVELS_ORDER[1],
                      !.taskHistory =
                          Repeat(TRUE, PROGRESS_UNLOCK_THRESHOLD - 1)]
    /\ localStorage = userData
    /\ geminiService = TRUE
    /\ assessmentQuestions = ASSESSMENT_TEST_QUESTIONS
    /\ levelUpQuestions = 0
    /\ levelUpResult = NoLevelUpResult
    /\ pendingAssessment = 0
    /\ pendingLevelUp = 0
    /\ pendingImages = <<>>
    /\ idxUserData = NULL
    /\ DashUnused
    /\ LogsEmpty

\* sinceLevelUp after some more results
Recorded(results) ==
    IF sinceLevelUp.completed
    THEN [sinceLevelUp EXCEPT !.results = sinceLevelUp.results \o results]
    ELSE sinceLevelUp

\* the history variables other than sinceLevelUp
OtherLogs ==
    <<resultLog, typeLog, introLog, forcedInstructions, mistakeLog,
      feedbackLog>>

RetestNext ==
    \/ /\ \E isCorrect \in BOOLEAN :
            /\ userData # NULL
            /\ userData.dailyStats.completed < MaxRetestCompleted
            /\ handleTaskComplete(<<isCorrect>>)
            /\ sinceLevelUp' = Recorded(<<isCorrect>>)
       /\ UNCHANGED <<idxVars, dashVars, OtherLogs>>
    \/ /\ userData # NULL
       /\ userData.dailyStats.completed < MaxRetestCompleted
       /\ userData.imageGeneration.count < MaxImages
       /\ Len(pendingImages) < MaxPendingImages
       /\ handleCheckAnswers
       /\ sinceLevelUp' = Recorded(<<TRUE>>)
       /\ UNCHANGED <<idxVars, dashVars, OtherLogs>>
    \/ ImageResolved /\ AppOnly
    \/ ImageRejected /\ AppOnly
    \/ handleStartLevelUpTest /\ AppOnly
    \/ LevelUpTestResolved /\ AppOnly
    \/ LevelUpTestRejected /\ AppOnly
    \/ /\ AppLevelUpTestComplete
       /\ sinceLevelUp' = [completed |-> TRUE, results |-> <<>>]
       /\ UNCHANGED <<idxVars, dashVars, OtherLogs>>
    \/ handleContinueFromLevelUp /\ AppOnly

SpecRetest == RetestInit /\ [][RetestNext]_vars

\* C25: after a level-up test has been completed, handleStartLevelUpTest
\* starts another one only when at least PROGRESS_UNLOCK_THRESHOLD (80)
\* correct results have been recorded since that completion.
C25_RetestNeedsEightyFurtherCorrect ==
    [][(handleStartLevelUpTest /\ sinceLevelUp.completed) =>
           CountTrue(sinceLevelUp.results) >= PROGRESS_UNLOCK_THRESHOLD]_vars

\* a second test is being prepared although no result has been recorded
\* since the first one was completed
C25_SecondTestWithoutResults ==
    /\ appState = "LEVEL_UP_ASSESSMENT_LOADING"
    /\ sinceLevelUp.completed
    /\ sinceLevelUp.results = <<>>
    /\ pendingLevelUp = 1

====
